---- MODULE Spec2Model ----
(***************************************************************************)
(* The tool functions of cad_agents (tools/freecad_tools.py,               *)
(* tools/analysis_tools.py) and the connection provider they use           *)
(* (utils/mcp_utils.py), as a state machine.                               *)
(*                                                                         *)
(* The state is what lives outside one tool invocation: the interpreter's  *)
(* module search path, the installation (is freecad-mcp/src there), the    *)
(* FreeCAD MCP client that gets constructed (an external package: its      *)
(* behaviour is an input, `stub`), and the document held by the remote     *)
(* FreeCAD.  `call` observes the invocation completed last.                *)
(*                                                                         *)
(* Text is modelled as text: TLA+ strings, cut with SubSeq and joined with *)
(* \o, so that formatting and parsing are computed, not assumed.           *)
(***************************************************************************)
EXTENDS Integers, Sequences, FiniteSets, TLC

VARIABLES
    sysPath,        \* sys.path: sequence of directory names
    mcpDirExists,   \* does <root>/freecad-mcp/src exist
    stub,           \* behaviour of freecad_mcp.client.Client (external package)
    docs,           \* remote: names of the open documents, active one first
    objects,        \* remote: objects of the active document, in creation order
    bulk,           \* remote: further plain objects of the active document
    call,           \* the tool invocation completed last in this environment
    prevList,       \* what the invocation before it returned, if it was list_objects
    environ,        \* os.environ: the variables set, each with its value
    dotenv,         \* the .env file load_dotenv() reads: the variables it sets
    server,         \* behaviour of MCPToolset.from_server and of the scope it returns
    boot            \* the start-up function completed last in this process

vars ==
    <<sysPath, mcpDirExists, stub, docs, objects, bulk, call, prevList,
      environ, dotenv, server, boot>>

\* what the tool functions leave alone
startupVars == <<environ, dotenv, server, boot>>

----------------------------------------------------------------------------
(* Bounds of the model *)

\* Objects (besides the bulk ones) a document holds at most: create_* and
\* boolean_operation are not exercised on a document that is full.
MaxObjects == 2

\* Number of plain objects in the large document fixture.
BulkObjects == 99

----------------------------------------------------------------------------
(* Text *)

Char(s, i) == SubSeq(s, i, i)

Digits == "0123456789"

IsDigit(c) == \E i \in 1..Len(Digits) : Char(Digits, i) = c

DigitValue(c) == (CHOOSE i \in 1..Len(Digits) : Char(Digits, i) = c) - 1

\* sub in s
Contains(s, sub) ==
    \E i \in 1..(Len(s) - Len(sub) + 1) : SubSeq(s, i, i + Len(sub) - 1) = sub

\* s.endswith(suffix)
EndsWith(s, suffix) ==
    /\ Len(s) >= Len(suffix)
    /\ SubSeq(s, Len(s) - Len(suffix) + 1, Len(s)) = suffix

StartsWithAt(s, i, prefix) ==
    /\ i + Len(prefix) - 1 <= Len(s)
    /\ SubSeq(s, i, i + Len(prefix) - 1) = prefix

IsSpace(c) == c \in {" ", "\n", "\t", "\r"}

\* First index from i on that holds no white space, Len(s) + 1 if none
RECURSIVE SkipWs(_, _)
SkipWs(s, i) == IF i <= Len(s) /\ IsSpace(Char(s, i)) THEN SkipWs(s, i + 1) ELSE i

\* Last index up to i that holds no white space, 0 if none
RECURSIVE SkipWsBack(_, _)
SkipWsBack(s, i) == IF i >= 1 /\ IsSpace(Char(s, i)) THEN SkipWsBack(s, i - 1) ELSE i

\* s.strip()
Strip(s) == SubSeq(s, SkipWs(s, 1), SkipWsBack(s, Len(s)))

RECURSIVE NatToStr(_)
NatToStr(n) ==
    IF n < 10 THEN Char(Digits, n + 1)
    ELSE NatToStr(n \div 10) \o Char(Digits, (n % 10) + 1)

\* str(n) of a Python int
IntToStr(n) == IF n < 0 THEN "-" \o NatToStr(-n) ELSE NatToStr(n)

\* sep.join(items), the sequence halved at each step
RECURSIVE Join(_, _)
Join(sep, items) ==
    IF Len(items) = 0 THEN ""
    ELSE IF Len(items) = 1 THEN items[1]
    ELSE LET h == Len(items) \div 2
         IN  Join(sep, SubSeq(items, 1, h)) \o sep
                \o Join(sep, SubSeq(items, h + 1, Len(items)))

\* repr of a list of str whose items hold no quote and no backslash:
\* what print(objects) and str(issues) produce
PyReprStrList(items) ==
    "[" \o Join(", ", [i \in 1..Len(items) |-> "'" \o items[i] \o "'"]) \o "]"

----------------------------------------------------------------------------
(* Python values read back from text *)

\* A Python float written with finitely many decimals: m / 10^e, with e the
\* least possible, so that equal numbers are equal records.
RECURSIVE Decimal(_, _)
Decimal(m, e) ==
    IF m = 0 THEN [m |-> 0, e |-> 0]
    ELSE IF e > 0 /\ m % 10 = 0 THEN Decimal(m \div 10, e - 1)
    ELSE [m |-> m, e |-> e]

RECURSIVE DigitsToNat(_, _)
DigitsToNat(s, acc) ==
    IF s = "" THEN acc
    ELSE DigitsToNat(Tail(s), 10 * acc + DigitValue(Head(s)))

AllDigits(s) == \A i \in 1..Len(s) : IsDigit(Char(s, i))

\* float(text), for text over the characters -, ., 0-9 (all that the
\* patterns of analysis_tools.py capture): an optional leading minus, digits
\* with at most one point among them and at least one digit; anything else
\* raises ValueError.
PyFloat(text) ==
    LET neg   == Len(text) >= 1 /\ Char(text, 1) = "-"
        body  == IF neg THEN Tail(text) ELSE text
        dots  == {i \in 1..Len(body) : Char(body, i) = "."}
        whole == IF dots = {} THEN body
                 ELSE SubSeq(body, 1, (CHOOSE i \in dots : TRUE) - 1)
        frac  == IF dots = {} THEN ""
                 ELSE SubSeq(body, (CHOOSE i \in dots : TRUE) + 1, Len(body))
        mag   == DigitsToNat(whole \o frac, 0)
    IN  IF /\ Cardinality(dots) <= 1
           /\ AllDigits(whole) /\ AllDigits(frac)
           /\ Len(whole) + Len(frac) >= 1
        THEN [ok |-> TRUE,
              val |-> Decimal(IF neg THEN -mag ELSE mag, Len(frac))]
        ELSE [ok |-> FALSE, val |-> text]

\* The longest run of characters of `class` that starts at s[i]; class is
\* given as the string of its characters.
RECURSIVE RunEnd(_, _, _)
RunEnd(s, i, class) ==
    IF i <= Len(s) /\ Contains(class, Char(s, i))
    THEN RunEnd(s, i + 1, class) ELSE i

\* First index >= i at which s holds prefix, or 0; s is searched eight
\* places at a time
RECURSIVE Find(_, _, _)
Find(s, i, prefix) ==
    LET last == Len(s) - Len(prefix) + 1
        hi   == IF i + 7 < last THEN i + 7 ELSE last
        hits == {j \in i..hi : StartsWithAt(s, j, prefix)}
    IN  IF i > last THEN 0
        ELSE IF hits # {} THEN CHOOSE j \in hits : \A k \in hits : j <= k
        ELSE Find(s, hi + 1, prefix)

\* re.search(r"'<key>': (\d+\.?\d*)", s): group 1 of the leftmost match, the
\* digits taken greedily (every suffix of the pattern may match empty, so the
\* greedy choice never has to be given back).
RECURSIVE ReSearchUnsigned(_, _, _)
ReSearchUnsigned(s, key, from) ==
    LET lead == "'" \o key \o "': "
        p    == Find(s, from, lead)
        a    == p + Len(lead)
        b    == RunEnd(s, a, Digits)
        c    == IF b <= Len(s) /\ Char(s, b) = "." THEN b + 1 ELSE b
        d    == RunEnd(s, c, Digits)
    IN  IF p = 0 THEN [found |-> FALSE]
        ELSE IF b = a THEN ReSearchUnsigned(s, key, p + 1)
        ELSE [found |-> TRUE, group1 |-> SubSeq(s, a, d - 1)]

\* re.search(r"'x': ([-\d.]+), 'y': ([-\d.]+), 'z': ([-\d.]+)", s): the
\* separators hold no character of the class, so each group is a maximal run.
RECURSIVE ReSearchTriple(_, _)
ReSearchTriple(s, from) ==
    LET class == "-." \o Digits
        p   == Find(s, from, "'x': ")
        a1  == p + 5
        b1  == RunEnd(s, a1, class)
        a2  == b1 + 7
        b2  == RunEnd(s, a2, class)
        a3  == b2 + 7
        b3  == RunEnd(s, a3, class)
    IN  IF p = 0 THEN [found |-> FALSE]
        ELSE IF /\ b1 > a1 /\ StartsWithAt(s, b1, ", 'y': ")
                /\ b2 > a2 /\ StartsWithAt(s, b2, ", 'z': ")
                /\ b3 > a3
        THEN [found |-> TRUE, group1 |-> SubSeq(s, a1, b1 - 1),
              group2 |-> SubSeq(s, a2, b2 - 1), group3 |-> SubSeq(s, a3, b3 - 1)]
        ELSE ReSearchTriple(s, p + 1)

\* eval(text) as list_objects uses it.  Evaluated here: a list display of
\* single-quoted strings without escapes (what print of a list of names
\* writes) and a decimal integer; every other text the model feeds it is one
\* Python rejects (SyntaxError, NameError), reported as ok = FALSE.
\* The list display s = ['..', '..', ...]: q lists the places of its quotes;
\* the items lie between the 1st and 2nd, the 3rd and 4th, ...; the first
\* quote follows the bracket, ", " lies between two items and the bracket
\* closes after the last.
EvalStrItems(s) ==
    LET IsQuote(i) == Char(s, i) = "'"
        q == SelectSeq([i \in 1..Len(s) |-> i], IsQuote)
        n == Len(q) \div 2
    IN  IF /\ Len(q) >= 2 /\ Len(q) % 2 = 0
           /\ q[1] = 2
           /\ q[Len(q)] + 1 = Len(s) /\ Char(s, Len(s)) = "]"
           /\ \A k \in 1..(n - 1) :
                /\ q[2 * k + 1] = q[2 * k] + 3
                /\ SubSeq(s, q[2 * k] + 1, q[2 * k] + 2) = ", "
        THEN [ok |-> TRUE, ty |-> "list",
              val |-> [k \in 1..n |-> SubSeq(s, q[2 * k - 1] + 1, q[2 * k] - 1)]]
        ELSE [ok |-> FALSE]

PyEval(s) ==
    IF s = "[]" THEN [ok |-> TRUE, ty |-> "list", val |-> <<>>]
    ELSE IF Len(s) >= 2 /\ Char(s, 1) = "[" THEN EvalStrItems(s)
    ELSE IF Len(s) >= 1 /\ AllDigits(s) /\ (Len(s) = 1 \/ Char(s, 1) # "0")
    THEN [ok |-> TRUE, ty |-> "int", val |-> DigitsToNat(s, 0)]
    ELSE [ok |-> FALSE]

----------------------------------------------------------------------------
(* JSON, as json.dumps writes it and json.loads reads it *)

\* json.dumps of a str without quote, backslash, control or non-ASCII
\* character (the names and messages of the analysis script's result)
JsonStr(t) == "\"" \o t \o "\""

\* json.dumps of a list of such strings
JsonStrList(items) ==
    "[" \o Join(", ", [i \in 1..Len(items) |-> JsonStr(items[i])]) \o "]"

\* json.dumps of a dict from such strings to ints, given as its (key, value)
\* pairs in insertion order
JsonCountDict(pairs) ==
    "{" \o Join(", ", [i \in 1..Len(pairs) |->
                        JsonStr(pairs[i][1]) \o ": " \o IntToStr(pairs[i][2])])
        \o "}"

JFail == [ok |-> FALSE]

\* The dict a sequence of (key, value) members denotes: a later member
\* replaces an earlier one of the same key.
MembersToDict(members) ==
    [k \in {members[i][1] : i \in 1..Len(members)} |->
        members[CHOOSE i \in 1..Len(members) :
                    /\ members[i][1] = k
                    /\ \A j \in (i + 1)..Len(members) : members[j][1] # k][2]]

\* json.loads, on the JSON made of objects, arrays, strings without escapes
\* and integers without sign; [ok, ty, val, next] with val the value read at
\* s[i] (dict: a function of its keys; list: a sequence; str; int), ty its
\* Python type and next the index after it.  ok = FALSE is JSONDecodeError.
RECURSIVE JValue(_, _), JMembers(_, _, _), JElements(_, _, _)
JValue(s, i) ==
    IF i > Len(s) THEN JFail
    ELSE IF Char(s, i) = "{" THEN
        (IF SkipWs(s, i + 1) <= Len(s) /\ Char(s, SkipWs(s, i + 1)) = "}"
         THEN [ok |-> TRUE, ty |-> "dict", val |-> MembersToDict(<<>>),
               next |-> SkipWs(s, i + 1) + 1]
         ELSE JMembers(s, SkipWs(s, i + 1), <<>>))
    ELSE IF Char(s, i) = "[" THEN
        (IF SkipWs(s, i + 1) <= Len(s) /\ Char(s, SkipWs(s, i + 1)) = "]"
         THEN [ok |-> TRUE, ty |-> "list", val |-> <<>>,
               next |-> SkipWs(s, i + 1) + 1]
         ELSE JElements(s, SkipWs(s, i + 1), <<>>))
    ELSE IF Char(s, i) = "\"" THEN
        (LET j == Find(s, i + 1, "\"")
         IN  IF j = 0 THEN JFail
             ELSE [ok |-> TRUE, ty |-> "str", val |-> SubSeq(s, i + 1, j - 1),
                   next |-> j + 1])
    ELSE IF IsDigit(Char(s, i)) THEN
        (LET j == RunEnd(s, i, Digits)
         IN  IF Char(s, i) = "0" /\ j > i + 1 THEN JFail
             ELSE [ok |-> TRUE, ty |-> "int",
                   val |-> DigitsToNat(SubSeq(s, i, j - 1), 0), next |-> j])
    ELSE JFail

\* the members of an object from s[i] on, after those in acc
JMembers(s, i, acc) ==
    LET key   == IF i <= Len(s) /\ Char(s, i) = "\"" THEN JValue(s, i) ELSE JFail
        colon == SkipWs(s, key.next)
        v     == JValue(s, SkipWs(s, colon + 1))
        after == SkipWs(s, v.next)
        acc2  == Append(acc, <<key.val, v.val>>)
    IN  IF ~key.ok THEN JFail
        ELSE IF ~(colon <= Len(s) /\ Char(s, colon) = ":") THEN JFail
        ELSE IF ~v.ok \/ after > Len(s) THEN JFail
        ELSE IF Char(s, after) = "}"
        THEN [ok |-> TRUE, ty |-> "dict", val |-> MembersToDict(acc2),
              next |-> after + 1]
        ELSE IF Char(s, after) = "," THEN JMembers(s, SkipWs(s, after + 1), acc2)
        ELSE JFail

\* the elements of an array from s[i] on, after those in acc
JElements(s, i, acc) ==
    LET v     == JValue(s, i)
        after == SkipWs(s, v.next)
        acc2  == Append(acc, v.val)
    IN  IF ~v.ok \/ after > Len(s) THEN JFail
        ELSE IF Char(s, after) = "]"
        THEN [ok |-> TRUE, ty |-> "list", val |-> acc2, next |-> after + 1]
        ELSE IF Char(s, after) = "," THEN JElements(s, SkipWs(s, after + 1), acc2)
        ELSE JFail

\* json.loads(s): one value, white space around it allowed, nothing else
JsonLoads(s) ==
    LET v == JValue(s, SkipWs(s, 1))
    IN  IF v.ok /\ SkipWs(s, v.next) = Len(s) + 1
        THEN [ok |-> TRUE, ty |-> v.ty, val |-> v.val]
        ELSE JFail

----------------------------------------------------------------------------
(* The remote FreeCAD: the document the code fragments act on.  FreeCAD is   *)
(* not part of the repository; what is modelled of it is what the fragments *)
(* of the tools read and write: object names, type ids and shape volumes.   *)

\* A shape volume, in units of 0.00001 mm^3
VolumeUnit == 100000

\* obj.Shape.Volume < 0.0001, in those units
ZeroVolumeThreshold == 10

\* object_count > 100
LargeObjectCount == 100

Obj(name, typeId, hasShape, volume) ==
    [Name |-> name, TypeId |-> typeId, hasShape |-> hasShape, Volume |-> volume]

\* one of the plain objects of the large document
BulkObj(i) == Obj("Pad" \o NatToStr(i), "Part::Feature", TRUE, VolumeUnit)

\* doc.Objects, given the objects besides the bulk and the size of the bulk
DocObjects(objs, nbulk) == [i \in 1..nbulk |-> BulkObj(i)] \o objs

HasName(all, name) == \E i \in 1..Len(all) : all[i].Name = name

\* doc.getObject(name): the object of that name, if any
GetObject(all, name) == all[CHOOSE i \in 1..Len(all) : all[i].Name = name]

\* The name doc.addObject gives: the one asked for, or, when it is taken, the
\* first of name001, name002, ... that is free.
RECURSIVE UniqueName(_, _, _)
UniqueName(all, name, k) ==
    LET cand == IF k = 0 THEN name
                ELSE name \o (IF k < 10 THEN "00" ELSE IF k < 100 THEN "0" ELSE "")
                          \o NatToStr(k)
    IN  IF HasName(all, cand) THEN UniqueName(all, name, k + 1) ELSE cand

\* Volume the kernel computes for a primitive (pi taken as 3.14159)
PrimitiveVolume(typeId, p) ==
    CASE typeId = "Part::Box"      -> p.Length * p.Width * p.Height * VolumeUnit
      [] typeId = "Part::Cylinder" -> 314159 * p.Radius * p.Radius * p.Height
      [] typeId = "Part::Sphere"   -> (4 * 314159 * p.Radius * p.Radius * p.Radius) \div 3

\* Volume the kernel computes for a boolean feature of two shapes that do not
\* overlap (where the operands lie is not modelled)
BooleanVolume(operation, v1, v2) ==
    CASE operation = "fusion" -> v1 + v2
      [] operation = "cut"    -> v1
      [] operation = "common" -> 0

BooleanTypeId(operation) ==
    CASE operation = "fusion" -> "Part::Fuse"
      [] operation = "cut"    -> "Part::Cut"
      [] operation = "common" -> "Part::Common"

\* The (type, count) pairs of object_types: a type is entered where it first
\* occurs, so the pairs are in the order of those first objects.
TallyTypes(all) ==
    LET IsFirst(i) == \A j \in 1..(i - 1) : all[j].TypeId # all[i].TypeId
        firsts == SelectSeq([i \in 1..Len(all) |-> i], IsFirst)
    IN  [k \in 1..Len(firsts) |->
            <<all[firsts[k]].TypeId,
              Cardinality({j \in 1..Len(all) : all[j].TypeId = all[firsts[k]].TypeId})>>]

\* Names of the objects that satisfy hasattr(obj, "Shape") and
\* obj.Shape.Volume < 0.0001, in document order
ZeroVolumeNames(all) ==
    LET IsZero(o) == o.hasShape /\ o.Volume < ZeroVolumeThreshold
        zero == SelectSeq(all, IsZero)
    IN  [k \in 1..Len(zero) |-> zero[k].Name]

----------------------------------------------------------------------------
(* The code fragments the tools send, as FreeCAD runs them.  A fragment is  *)
(* kept as its template and the values interpolated into it; each operator   *)
(* below gives what one template prints and the objects it leaves, on a      *)
(* document whose objects (bulk aside) are objs.                             *)

Ran(output, objs) == [ok |-> TRUE, output |-> output, objects |-> objs]

\* What the Python repr of {"status": "error", "error_message": f"Object
\* '<name>' not found"} is: the message holds single quotes, so repr
\* writes it in double quotes.
NotFoundLine(name) == "Error: Object '" \o name \o "' not found\n"

NotFoundResult(name) ==
    "{'status': 'error', 'error_message': \"Object '" \o name \o "' not found\"}"

\* doc.addObject("<typeId>", "<name>"); set the dimensions; doc.recompute()
AddObjectScript(code, objs, nbulk) ==
    LET all == DocObjects(objs, nbulk)
        made == Obj(UniqueName(all, code.name, 0), code.typeId, TRUE,
                    PrimitiveVolume(code.typeId, code.props))
    IN  Ran("", Append(objs, made))

BooleanScript(code, objs, nbulk) ==
    LET all == DocObjects(objs, nbulk)
        made == Obj(UniqueName(all, code.result_name, 0),
                    BooleanTypeId(code.operation), TRUE,
                    BooleanVolume(code.operation,
                                  GetObject(all, code.obj1_name).Volume,
                                  GetObject(all, code.obj2_name).Volume))
    IN  IF ~HasName(all, code.obj1_name)
        THEN Ran(NotFoundLine(code.obj1_name) \o "Boolean result: "
                    \o NotFoundResult(code.obj1_name) \o "\n", objs)
        ELSE IF ~HasName(all, code.obj2_name)
        THEN Ran(NotFoundLine(code.obj2_name) \o "Boolean result: "
                    \o NotFoundResult(code.obj2_name) \o "\n", objs)
        ELSE IF code.operation \notin {"fusion", "cut", "common"}
        THEN [ok |-> FALSE, objects |-> objs,
              output |-> "name 'boolean' is not defined"]
        ELSE Ran("Boolean result: {'status': 'success', 'object_name': '"
                    \o code.result_name \o "'}\n", Append(objs, made))

\* The placement itself is not among the attributes modelled.
PlacementScript(code, objs, nbulk) ==
    IF ~HasName(DocObjects(objs, nbulk), code.obj_name)
    THEN Ran(NotFoundLine(code.obj_name) \o "Placement result: "
                \o NotFoundResult(code.obj_name) \o "\n", objs)
    ELSE Ran("Placement result: {'status': 'success'}\n", objs)

\* objects = [obj.Name for obj in doc.Objects]; print(objects)
ListScript(objs, nbulk) ==
    LET all == DocObjects(objs, nbulk)
    IN  Ran(PyReprStrList([i \in 1..Len(all) |-> all[i].Name]) \o "\n", objs)

\* doc.saveAs("<filename>"); print("Document saved as <filename>")
SaveScript(code, objs) == Ran("Document saved as " \o code.filename \o "\n", objs)

LargeCountIssue == "Large number of objects may cause performance issues"

SimplifyRecommendation ==
    "Consider simplifying the model by combining objects or using patterns"

ZeroVolumeRecommendation ==
    "Review and fix zero-volume objects as they may cause issues in manufacturing or analysis"

\* potential_issues as they would be with the zero-volume objects counted
\* instead of named
PotentialIssues_counted(object_count, zero_volume_objects) ==
    (IF object_count > LargeObjectCount THEN <<LargeCountIssue>> ELSE <<>>)
    \o (IF zero_volume_objects # <<>>
        THEN <<"Objects with zero or very small volume: "
                \o NatToStr(Len(zero_volume_objects))>>
        ELSE <<>>)

\* potential_issues as they would be with a document of exactly
\* LargeObjectCount objects flagged too
PotentialIssues_from_count(object_count, zero_volume_objects) ==
    (IF object_count >= LargeObjectCount THEN <<LargeCountIssue>> ELSE <<>>)
    \o (IF zero_volume_objects # <<>>
        THEN <<"Objects with zero or very small volume: "
                \o Join(", ", zero_volume_objects)>>
        ELSE <<>>)

\* potential_issues of the analysis, zero_volume_objects being the names
\* collected
PotentialIssues(object_count, zero_volume_objects) ==
    (IF object_count > LargeObjectCount THEN <<LargeCountIssue>> ELSE <<>>)
    \o (IF zero_volume_objects # <<>>
        THEN <<"Objects with zero or very small volume: "
                \o Join(", ", zero_volume_objects)>>
        ELSE <<>>)

\* recommendations of the analysis: the first one looks for the words
\* "Large number of objects" in str(potential_issues)
Recommendations(issues, zero_volume_objects) ==
    (IF Contains(PyReprStrList(issues), "Large number of objects")
     THEN <<SimplifyRecommendation>> ELSE <<>>)
    \o (IF zero_volume_objects # <<>> THEN <<ZeroVolumeRecommendation>> ELSE <<>>)

AnalysisOf(all, zero_volume_objects) ==
    [object_count |-> Len(all),
     object_types |-> TallyTypes(all),
     potential_issues |-> PotentialIssues(Len(all), zero_volume_objects),
     recommendations |->
        Recommendations(PotentialIssues(Len(all), zero_volume_objects),
                        zero_volume_objects)]

\* The analysis dict the script builds for a document with objects `all`
Analysis(all) == AnalysisOf(all, ZeroVolumeNames(all))

\* json.dumps(analysis)
AnalysisJson(a) ==
    "{\"status\": \"success\", \"object_count\": " \o IntToStr(a.object_count)
    \o ", \"object_types\": " \o JsonCountDict(a.object_types)
    \o ", \"potential_issues\": " \o JsonStrList(a.potential_issues)
    \o ", \"recommendations\": " \o JsonStrList(a.recommendations) \o "}"

\* print(json.dumps(analysis)), or the error printed when there is no
\* active document
AnalysisScript(hasDoc, objs, nbulk) ==
    IF ~hasDoc
    THEN Ran("{\"status\": \"error\", \"error_message\": \"No active document found\"}\n",
             objs)
    ELSE Ran(AnalysisJson(Analysis(DocObjects(objs, nbulk))) \o "\n", objs)

\* The fragments of calculate_volume, calculate_surface_area and
\* calculate_center_of_mass: the lookup by name; on an object found, the
\* line printed holds the text interpolated when the fragment was built.
MeasureScript(code, objs, nbulk) ==
    LET all == DocObjects(objs, nbulk)
    IN  IF ~HasName(all, code.obj_name)
        THEN Ran(NotFoundLine(code.obj_name), objs)
        ELSE IF ~GetObject(all, code.obj_name).hasShape
        THEN Ran("Error: Object '" \o code.obj_name \o "' has no Shape property\n", objs)
        ELSE Ran(code.line \o "\n", objs)

\* A fragment run by FreeCAD.  Without an active document App.activeDocument()
\* is None and every fragment but the analysis one fails on its first use.
Exec(code, hasDoc, objs, nbulk) ==
    IF code.fragment = "analyze" THEN AnalysisScript(hasDoc, objs, nbulk)
    ELSE IF ~hasDoc
    THEN [ok |-> FALSE, objects |-> objs,
          output |-> "'NoneType' object has no attribute '"
                     \o (IF code.fragment \in {"addObject"} THEN "addObject"
                         ELSE IF code.fragment = "list" THEN "Objects"
                         ELSE IF code.fragment = "saveAs" THEN "saveAs"
                         ELSE "getObject") \o "'"]
    ELSE CASE code.fragment = "addObject" -> AddObjectScript(code, objs, nbulk)
           [] code.fragment = "boolean"   -> BooleanScript(code, objs, nbulk)
           [] code.fragment = "placement" -> PlacementScript(code, objs, nbulk)
           [] code.fragment = "list"      -> ListScript(objs, nbulk)
           [] code.fragment = "saveAs"    -> SaveScript(code, objs)
           [] code.fragment = "measure"   -> MeasureScript(code, objs, nbulk)

----------------------------------------------------------------------------
(* The FreeCAD MCP client (package freecad_mcp.client, not part of the      *)
(* repository).  `stub` says how the client in place behaves:               *)
(*   acquire  "client": Client() is constructed; "ImportError": the import  *)
(*            fails; "Exception": the constructor raises                    *)
(*   raises   the method that raises when called, or "none"                 *)
(*   run      what run_python_code returns:                                 *)
(*            "printed"          {success: <ran>, output: <what was printed>}*)
(*            "printed_no_flag"  {output: <what was printed>}               *)
(*            "no_output"        {success: True}                            *)
(*            "flag_false"       {success: False, output: <text>}, nothing run*)
(*            "canned"           {success: True, output: <text>}, nothing run*)
(*            "empty"            {}                                         *)
(*            "None"             None                                       *)
(*   text     the text of "flag_false" and "canned"                         *)

Behaviour(acquire, raises, run, text) ==
    [acquire |-> acquire, raises |-> raises, run |-> run, text |-> text]

WellBehaved == Behaviour("client", "none", "printed", "")

\* str(e) of the exception a failing client method raises
TransportError == "Connection refused"

FreeCADVersion == "0.21.2"

\* A Python value returned by run_python_code: None, or a dict
PyNone == [isNone |-> TRUE]

PyDict(d) == [isNone |-> FALSE, d |-> d]

EmptyDict == [k \in {} |-> ""]

\* The remote side during one invocation, and the calls issued so far
World(ds, objs, nbulk) == [docs |-> ds, objects |-> objs, bulk |-> nbulk, log |-> <<>>]

Called(w, entry) == [w EXCEPT !.log = Append(@, entry)]

Raised(w, exc) == [raised |-> TRUE, exc |-> exc, w |-> w]

Returned(w, value) == [raised |-> FALSE, value |-> value, w |-> w]

\* client.get_version()
get_version(w) ==
    LET w1 == Called(w, [op |-> "get_version"])
    IN  IF stub.raises = "get_version" THEN Raised(w1, TransportError)
        ELSE Returned(w1, FreeCADVersion)

\* client.list_documents()
list_documents(w) ==
    LET w1 == Called(w, [op |-> "list_documents"])
    IN  IF stub.raises = "list_documents" THEN Raised(w1, TransportError)
        ELSE Returned(w1, w.docs)

\* client.create_document(name): the new document becomes the active one
create_document(w, name) ==
    LET w1 == Called(w, [op |-> "create_document", name |-> name])
    IN  IF stub.raises = "create_document" THEN Raised(w1, TransportError)
        ELSE Returned([w1 EXCEPT !.docs = <<name>> \o @, !.objects = <<>>, !.bulk = 0],
                      name)

\* What run_python_code returns once FreeCAD has run the fragment with
\* outcome x; w1 is the remote side with the call logged.
Respond(w1, x) ==
    IF stub.raises = "run_python_code" THEN Raised(w1, TransportError)
    ELSE CASE stub.run = "printed" ->
                Returned([w1 EXCEPT !.objects = x.objects],
                         PyDict([success |-> x.ok, output |-> x.output]))
           [] stub.run = "printed_no_flag" ->
                Returned([w1 EXCEPT !.objects = x.objects], PyDict([output |-> x.output]))
           [] stub.run = "no_output" ->
                Returned([w1 EXCEPT !.objects = x.objects], PyDict([success |-> TRUE]))
           [] stub.run = "flag_false" ->
                Returned(w1, PyDict([success |-> FALSE, output |-> stub.text]))
           [] stub.run = "canned" ->
                Returned(w1, PyDict([success |-> TRUE, output |-> stub.text]))
           [] stub.run = "empty" -> Returned(w1, PyDict(EmptyDict))
           [] stub.run = "None" -> Returned(w1, PyNone)

\* client.run_python_code(code)
run_python_code(w, code) ==
    Respond(Called(w, [op |-> "run_python_code", code |-> code]),
            Exec(code, w.docs # <<>>, w.objects, w.bulk))

\* result.get(key, default) of a dict
Get(result, key, default) ==
    IF key \in DOMAIN result.d THEN result.d[key] ELSE default

\* bool(result): None and the empty dict are false
Truthy(result) == ~result.isNone /\ DOMAIN result.d # {}

----------------------------------------------------------------------------
(* The connection provider, utils/mcp_utils.py *)

McpSrcDir == "freecad-mcp/src"

InPath(path, dir) == \E i \in 1..Len(path) : path[i] = dir

\* setup_mcp_environment as it would be if it took a directory already on
\* the path for a failure
setup_mcp_environment_once(path) ==
    IF mcpDirExists /\ ~InPath(path, McpSrcDir)
    THEN [ok |-> TRUE, sysPath |-> <<McpSrcDir>> \o path]
    ELSE [ok |-> FALSE, sysPath |-> path]

\* setup_mcp_environment as it would be without the test of line 25: the
\* directory goes to the front of the path at every call that finds it
setup_mcp_environment_unguarded(path) ==
    IF mcpDirExists
    THEN [ok |-> TRUE, sysPath |-> <<McpSrcDir>> \o path]
    ELSE [ok |-> FALSE, sysPath |-> path]

\* setup_mcp_environment(): [ok, sysPath], ok its return value and sysPath
\* the module search path it leaves
setup_mcp_environment(path) ==
    IF mcpDirExists
    THEN [ok |-> TRUE,
          sysPath |-> IF ~InPath(path, McpSrcDir) THEN <<McpSrcDir>> \o path ELSE path]
    ELSE [ok |-> FALSE, sysPath |-> path]

\* get_mcp_client as it would be without the handler of line 95: an
\* exception of Client() leaves the function
get_mcp_client_uncaught(path) ==
    LET env == setup_mcp_environment(path)
    IN  IF ~env.ok
        THEN [client |-> FALSE, sysPath |-> env.sysPath, imported |-> FALSE,
              constructed |-> FALSE, raised |-> FALSE]
        ELSE IF stub.acquire = "ImportError"
        THEN [client |-> FALSE, sysPath |-> env.sysPath, imported |-> TRUE,
              constructed |-> FALSE, raised |-> FALSE]
        ELSE IF stub.acquire = "Exception"
        THEN [client |-> FALSE, sysPath |-> env.sysPath, imported |-> TRUE,
              constructed |-> TRUE, raised |-> TRUE]
        ELSE [client |-> TRUE, sysPath |-> env.sysPath, imported |-> TRUE,
              constructed |-> TRUE, raised |-> FALSE]

\* get_mcp_client(): client is TRUE for a constructed Client, FALSE for None;
\* raised is whether an exception leaves the function
get_mcp_client(path) ==
    LET env == setup_mcp_environment(path)
    IN  IF ~env.ok
        THEN [client |-> FALSE, sysPath |-> env.sysPath, imported |-> FALSE,
              constructed |-> FALSE, raised |-> FALSE]
        ELSE IF stub.acquire = "ImportError"
        THEN [client |-> FALSE, sysPath |-> env.sysPath, imported |-> TRUE,
              constructed |-> FALSE, raised |-> FALSE]
        ELSE IF stub.acquire = "Exception"
        THEN [client |-> FALSE, sysPath |-> env.sysPath, imported |-> TRUE,
              constructed |-> TRUE, raised |-> FALSE]
        ELSE [client |-> TRUE, sysPath |-> env.sysPath, imported |-> TRUE,
              constructed |-> TRUE, raised |-> FALSE]

----------------------------------------------------------------------------
(* Python values of the start-up code.  Values of different classes are     *)
(* records over different fields, so that none equals another.              *)

PyBool(b) == [bool |-> b]

PyList(items) == [list |-> items]

PyTuple(a, b) == [first |-> a, second |-> b]

\* contextlib.AsyncExitStack, the scope MCPToolset.from_server returns
ExitStack == [class |-> "AsyncExitStack"]

\* cad_agents.agents.root_agent.root_agent
RootAgent == [class |-> "Agent", name |-> "cad_assistant"]

\* bool(tools) of the first component of the pair: None and [] are false
TruthyTools(tools) == tools # PyNone /\ tools.list # <<>>

\* bool(exit_stack): None is false, an AsyncExitStack is true
TruthyScope(exit_stack) == exit_stack # PyNone

----------------------------------------------------------------------------
(* The tool-list provider and the probe, utils/mcp_utils.py *)

\* MCPToolset.from_server (google.adk): the server process is spawned, the
\* tools are listed; server.connect says which of the two ends it takes.
\* spawned counts the server processes started.
from_server ==
    IF server.connect = "raises"
    THEN [raised |-> TRUE, spawned |-> 1]
    ELSE [raised |-> FALSE, spawned |-> 1, tools |-> PyList(server.tools),
          exit_stack |-> ExitStack]

\* what get_mcp_tools_async hands back without a connection; spawned is 0
\* or 1
NoTools(path, spawned) ==
    [ret |-> PyTuple(PyNone, PyNone), escaped |-> FALSE, sysPath |-> path,
     spawned |-> spawned, opened |-> 0]

\* lines 57-75 as they would be without the handler of line 73
get_mcp_tools_async_on_server_uncaught(path, r) ==
    IF r.raised
    THEN [ret |-> PyNone, escaped |-> TRUE, sysPath |-> path,
          spawned |-> r.spawned, opened |-> 0]
    ELSE [ret |-> PyTuple(r.tools, r.exit_stack), escaped |-> FALSE, sysPath |-> path,
          spawned |-> r.spawned, opened |-> 1]

\* lines 57-75: r is what from_server did; opened counts the scopes handed
\* to the caller
get_mcp_tools_async_on_server(path, r) ==
    IF r.raised
    THEN NoTools(path, r.spawned)
    ELSE [ret |-> PyTuple(r.tools, r.exit_stack), escaped |-> FALSE, sysPath |-> path,
          spawned |-> r.spawned, opened |-> 1]

\* lines 44-75
get_mcp_tools_async_try(path) ==
    IF ~mcpDirExists
    THEN NoTools(path, 0)
    ELSE get_mcp_tools_async_on_server(path, from_server)

\* lines 40-75: env is what setup_mcp_environment gave
get_mcp_tools_async_on_setup(env) ==
    IF ~env.ok
    THEN NoTools(env.sysPath, 0)
    ELSE get_mcp_tools_async_try(env.sysPath)

\* get_mcp_tools_async(): [ret, escaped, sysPath, spawned, opened]
get_mcp_tools_async(path) == get_mcp_tools_async_on_setup(setup_mcp_environment(path))

\* lines 109-117 as they would be without the handler of line 115
check_mcp_connection_on_documents_uncaught(c, r) ==
    IF r.raised
    THEN [ret |-> PyNone, escaped |-> TRUE, sysPath |-> c.sysPath, log |-> r.w.log]
    ELSE [ret |-> PyBool(TRUE), escaped |-> FALSE, sysPath |-> c.sysPath,
          log |-> r.w.log]

\* lines 109-117: r is what client.list_documents() did
check_mcp_connection_on_documents(c, r) ==
    [ret |-> PyBool(~r.raised), escaped |-> FALSE, sysPath |-> c.sysPath,
     log |-> r.w.log]

\* lines 106-117: c is what get_mcp_client gave, w the remote side
check_mcp_connection_on_client(c, w) ==
    IF c.raised
    THEN [ret |-> PyNone, escaped |-> TRUE, sysPath |-> c.sysPath, log |-> w.log]
    ELSE IF ~c.client
    THEN [ret |-> PyBool(FALSE), escaped |-> FALSE, sysPath |-> c.sysPath,
          log |-> w.log]
    ELSE check_mcp_connection_on_documents(c, list_documents(w))

\* check_mcp_connection(): [ret, escaped, sysPath, log]
check_mcp_connection ==
    check_mcp_connection_on_client(get_mcp_client(sysPath), World(docs, objects, bulk))

----------------------------------------------------------------------------
(* The process environment, read at start-up *)

EnvKeys ==
    {"GOOGLE_GENAI_USE_VERTEXAI", "GOOGLE_CLOUD_PROJECT", "GOOGLE_CLOUD_LOCATION",
     "GOOGLE_API_KEY"}

\* In a table of settings, the entry of a variable that is not set
Unset == "<unset>"

\* os.environ with the variables the table sets
Environ(vertex, project, location, key) ==
    LET table == [GOOGLE_GENAI_USE_VERTEXAI |-> vertex, GOOGLE_CLOUD_PROJECT |-> project,
                  GOOGLE_CLOUD_LOCATION |-> location, GOOGLE_API_KEY |-> key]
    IN  [k \in {x \in EnvKeys : table[x] # Unset} |-> table[k]]

\* os.getenv(k) is None
IsUnset(env, k) == k \notin DOMAIN env

\* not os.getenv(k): unset, or set to the empty string
NotGetenv(env, k) == IsUnset(env, k) \/ env[k] = ""

\* load_dotenv() (python-dotenv, override=False): a variable of the file is
\* set unless the environment has it already
load_dotenv(env, file) ==
    [k \in DOMAIN env \cup DOMAIN file |-> IF k \in DOMAIN env THEN env[k] ELSE file[k]]

\* os.getenv("GOOGLE_GENAI_USE_VERTEXAI") == "True"
UseVertexAI(env) ==
    /\ ~IsUnset(env, "GOOGLE_GENAI_USE_VERTEXAI")
    /\ env["GOOGLE_GENAI_USE_VERTEXAI"] = "True"

\* main.py lines 25-32: the branch that returns False
CredentialsMissing(env) ==
    IF UseVertexAI(env)
    THEN NotGetenv(env, "GOOGLE_CLOUD_PROJECT") \/ NotGetenv(env, "GOOGLE_CLOUD_LOCATION")
    ELSE NotGetenv(env, "GOOGLE_API_KEY")

\* await exit_stack.aclose(): does it raise
AcloseRaises == server.aclose = "raises"

----------------------------------------------------------------------------
(* main.py and the scripts of tests/ that call get_mcp_tools_async.  Each   *)
(* gives [ret, escaped, environ, sysPath, attempts, spawned, opened,        *)
(* acloses]: attempts counts the calls of get_mcp_tools_async, acloses the  *)
(* calls of exit_stack.aclose().                                            *)

Boot(ret, escaped, env, t, attempts, acloses) ==
    [ret |-> ret, escaped |-> escaped, environ |-> env, sysPath |-> t.sysPath,
     attempts |-> attempts, spawned |-> t.spawned, opened |-> t.opened,
     acloses |-> acloses]

\* nothing was asked of the provider
NotAttempted(path) == [sysPath |-> path, spawned |-> 0, opened |-> 0]

\* main.py lines 37-50: t is what get_mcp_tools_async gave
setup_environment_async_on_tools(env, t) ==
    IF t.escaped
    THEN Boot(PyBool(FALSE), FALSE, env, t, 1, 0)
    ELSE IF TruthyTools(t.ret.first) /\ TruthyScope(t.ret.second)
    THEN Boot(PyBool(~AcloseRaises), FALSE, env, t, 1, 1)
    ELSE Boot(PyBool(FALSE), FALSE, env, t, 1, 0)

\* main.py lines 25-50 as they would be with the connection tested before
\* the variables are looked at
setup_environment_async_on_environ_late(env, path) ==
    IF CredentialsMissing(env)
    THEN Boot(PyBool(FALSE), FALSE, env, get_mcp_tools_async(path), 1, 0)
    ELSE setup_environment_async_on_tools(env, get_mcp_tools_async(path))

\* main.py lines 25-50: env is os.environ after load_dotenv()
setup_environment_async_on_environ(env, path) ==
    IF CredentialsMissing(env)
    THEN Boot(PyBool(FALSE), FALSE, env, NotAttempted(path), 0, 0)
    ELSE setup_environment_async_on_tools(env, get_mcp_tools_async(path))

setup_environment_async ==
    setup_environment_async_on_environ(load_dotenv(environ, dotenv), sysPath)

\* main.py lines 63-71: b is what setup_environment_async did
start_app_async_on_setup(b) ==
    IF b.escaped
    THEN [b EXCEPT !.ret = PyNone] @@ [setup |-> PyNone]
    ELSE [b EXCEPT !.ret = IF b.ret.bool THEN RootAgent ELSE PyBool(FALSE)]
            @@ [setup |-> b.ret]

\* start_app_async(): setup is what setup_environment_async returned to it
start_app_async == start_app_async_on_setup(setup_environment_async)

\* tests/test_adk.py lines 51-69: t is what get_mcp_tools_async gave
test_adk_setup_on_tools(env, t) ==
    IF t.escaped
    THEN Boot(PyBool(FALSE), FALSE, env, t, 1, 0)
    ELSE IF TruthyTools(t.ret.first) /\ TruthyScope(t.ret.second)
    THEN Boot(PyBool(~AcloseRaises), FALSE, env, t, 1, 1)
    ELSE Boot(PyBool(FALSE), FALSE, env, t, 1, 0)

\* tests/test_adk.py lines 37-69: env is os.environ after load_dotenv()
test_adk_setup_on_environ(env, path) ==
    IF CredentialsMissing(env)
    THEN Boot(PyBool(FALSE), FALSE, env, NotAttempted(path), 0, 0)
    ELSE test_adk_setup_on_tools(env, get_mcp_tools_async(path))

test_adk_setup == test_adk_setup_on_environ(load_dotenv(environ, dotenv), sysPath)

\* tests/demo_cad_agents.py lines 35-42: no handler, what aclose() raises
\* leaves the function
check_mcp_connection_async_on_tools(env, t) ==
    IF t.escaped
    THEN Boot(PyNone, TRUE, env, t, 1, 0)
    ELSE IF TruthyTools(t.ret.first) /\ TruthyScope(t.ret.second)
    THEN IF AcloseRaises
         THEN Boot(PyNone, TRUE, env, t, 1, 1)
         ELSE Boot(PyBool(TRUE), FALSE, env, t, 1, 1)
    ELSE Boot(PyBool(FALSE), FALSE, env, t, 1, 0)

check_mcp_connection_async ==
    check_mcp_connection_async_on_tools(environ, get_mcp_tools_async(sysPath))

----------------------------------------------------------------------------
(* tests/test_adk_freecad.py.  The script has a setup_mcp_environment of   *)
(* its own, on the directory beside the script, and starts the server as a  *)
(* subprocess before it connects.                                           *)

TestsMcpSrcDir == "tests/freecad-mcp/src"

\* What becomes of the server subprocess: "spawn_raises" when
\* create_subprocess_exec raises, "running" when the process is alive until
\* it is terminated, "exited" when it has ended by itself before that
ProcessBehaviours == {"spawn_raises", "running", "exited"}

\* lines 20-33, the script's setup_mcp_environment: [ok, sysPath]
test_adk_freecad_setup_mcp_environment(path, exists) ==
    IF exists
    THEN [ok |-> TRUE,
          sysPath |-> IF ~InPath(path, TestsMcpSrcDir) THEN Append(path, TestsMcpSrcDir)
                      ELSE path]
    ELSE [ok |-> FALSE, sysPath |-> path]

\* lines 35-64, run_freecad_mcp_server: is a process returned
run_freecad_mcp_server(exists, process) == exists /\ process # "spawn_raises"

\* What test_adk_with_freecad returned and did: started, terminates and
\* waits count the subprocesses started, the calls of terminate() and the
\* awaits of wait(); opened and acloses are those of Boot
Probe(ret, env, path, started, terminates, waits, opened, acloses) ==
    [ret |-> PyBool(ret), escaped |-> FALSE, environ |-> env, sysPath |-> path,
     started |-> started, terminates |-> terminates, waits |-> waits,
     opened |-> opened, acloses |-> acloses]

\* lines 131-139: the finally block, after lines 96-130 have come to return
\* `ret`.  terminate() of a process that has ended raises ProcessLookupError:
\* wait() is not reached, and the handler of line 137 returns False.
test_adk_with_freecad_finally(env, path, process, ret, opened, acloses) ==
    IF process = "exited"
    THEN Probe(FALSE, env, path, 1, 1, 0, opened, acloses)
    ELSE Probe(ret, env, path, 1, 1, 1, opened, acloses)

\* lines 96-139: r is what MCPToolset.from_server did
test_adk_with_freecad_on_toolset(env, path, process, r) ==
    IF r.raised
    THEN test_adk_with_freecad_finally(env, path, process, FALSE, 0, 0)
    ELSE IF TruthyTools(r.tools) /\ TruthyScope(r.exit_stack)
    THEN test_adk_with_freecad_finally(env, path, process, ~AcloseRaises, 1, 1)
    ELSE test_adk_with_freecad_finally(env, path, process, FALSE, 1, 0)

\* lines 89-139: started is whether run_freecad_mcp_server returned a process
test_adk_with_freecad_on_server(env, path, process, started) ==
    IF ~started
    THEN Probe(FALSE, env, path, 0, 0, 0, 0, 0)
    ELSE test_adk_with_freecad_on_toolset(env, path, process, from_server)

\* lines 72-139: s is what the script's setup_mcp_environment gave
test_adk_with_freecad_on_setup(env, s, exists, process) ==
    IF ~s.ok \/ CredentialsMissing(env)
    THEN Probe(FALSE, env, s.sysPath, 0, 0, 0, 0, 0)
    ELSE test_adk_with_freecad_on_server(env, s.sysPath, process,
                                         run_freecad_mcp_server(exists, process))

\* test_adk_with_freecad(), with the directory beside the script there or
\* not and the subprocess behaving as `process`
test_adk_with_freecad(exists, process) ==
    test_adk_with_freecad_on_setup(load_dotenv(environ, dotenv),
        test_adk_freecad_setup_mcp_environment(sysPath, exists), exists, process)

----------------------------------------------------------------------------
(* What a tool function hands back, and what it did to get there *)

Err(msg) == [status |-> "error", error_message |-> msg]

ConnectError == Err("Failed to connect to FreeCAD MCP server.")

\* The function returned `ret` (a value of Python type pytype) after the
\* calls of w.log, having asked for the client `acquired` times.
Outcome(ret, pytype, w, c) ==
    [ret |-> ret, pytype |-> pytype, escaped |-> "none", acquired |-> 1,
     log |-> w.log, docs |-> w.docs, objects |-> w.objects, bulk |-> w.bulk,
     sysPath |-> c.sysPath]

Return(ret, w, c) == Outcome(ret, "dict", w, c)

\* The function did not return: exception exc left it.
Escape(exc, w, c) ==
    [ret |-> [exception |-> exc], pytype |-> "exception", escaped |-> exc,
     acquired |-> 1, log |-> w.log, docs |-> w.docs, objects |-> w.objects,
     bulk |-> w.bulk, sysPath |-> c.sysPath]

\* Names bound at module level in the tools modules
Globals == {"get_mcp_client"}

\* Evaluating an f-string whose replacement fields name `fields` (in the
\* order of the text) when the names `bound` have a value: the first field
\* without one raises, UnboundLocalError if the function assigns the name
\* somewhere (it is in `locals`), NameError if not.  The messages are those
\* of CPython 3.11 and later.
FString(fields, bound, locals) ==
    LET bad == {i \in 1..Len(fields) : fields[i] \notin (bound \cup Globals)}
        first == fields[CHOOSE i \in bad : \A j \in bad : i <= j]
    IN  IF bad = {} THEN [raised |-> FALSE]
        ELSE [raised |-> TRUE,
              exc |-> IF first \in locals
                      THEN "cannot access local variable '" \o first
                           \o "' where it is not associated with a value"
                      ELSE "name '" \o first \o "' is not defined"]

----------------------------------------------------------------------------
(* tools/freecad_tools.py.  Numbers are Python ints.  Each function is one   *)
(* call on the present state: what it returns and does.  A function is      *)
(* written from its last step to its first: <function>_on_<x>(c, r) is what *)
(* remains to be done once the client call <x> has come back with r, and    *)
(* <function>_try(c, w) is the function from its client check on; c is what *)
(* get_mcp_client gave and w the remote side.                               *)

\* get_freecad_version as it would be without its except clause
get_freecad_version_on_version_uncaught(c, r) ==
    IF r.raised THEN Escape(r.exc, r.w, c)
    ELSE Return([status |-> "success", version |-> r.value], r.w, c)

get_freecad_version_on_version(c, r) ==
    IF r.raised
    THEN Return(Err("Error getting FreeCAD version: " \o r.exc), r.w, c)
    ELSE Return([status |-> "success", version |-> r.value], r.w, c)

get_freecad_version_try(c, w) ==
    IF ~c.client THEN Return(ConnectError, w, c)
    ELSE get_freecad_version_on_version(c, get_version(w))

get_freecad_version ==
    get_freecad_version_try(get_mcp_client(sysPath), World(docs, objects, bulk))

\* The body shared by create_box, create_cylinder and create_sphere: the
\* document is created if none exists, then the primitive is added.
\* what: "box", ...; code: the fragment; message: the success message.
CreatePrimitive_on_result(c, r3, what, message, name) ==
    IF r3.raised THEN Return(Err("Error creating " \o what \o ": " \o r3.exc), r3.w, c)
    ELSE Return([status |-> "success", message |-> message, object_name |-> name],
                r3.w, c)

\* run_python_code called once more when the call r raised
Retried(r, code) == IF r.raised THEN run_python_code(r.w, code) ELSE r

\* The body of create_* as it would be if a fragment whose call raised were
\* sent once more
CreatePrimitive_on_document_retried(c, r2, what, code, message, name) ==
    IF r2.raised THEN Return(Err("Error creating " \o what \o ": " \o r2.exc), r2.w, c)
    ELSE CreatePrimitive_on_result(c, Retried(run_python_code(r2.w, code), code),
                                   what, message, name)

CreatePrimitive_on_document(c, r2, what, code, message, name) ==
    IF r2.raised THEN Return(Err("Error creating " \o what \o ": " \o r2.exc), r2.w, c)
    ELSE CreatePrimitive_on_result(c, run_python_code(r2.w, code), what, message, name)

\* The body of create_* as it would be with the document created whether
\* or not one exists
CreatePrimitive_on_documents_always(c, r1, what, code, message, name) ==
    IF r1.raised THEN Return(Err("Error creating " \o what \o ": " \o r1.exc), r1.w, c)
    ELSE CreatePrimitive_on_document(c, create_document(r1.w, "CADAgentDocument"),
                                     what, code, message, name)

CreatePrimitive_on_documents(c, r1, what, code, message, name) ==
    IF r1.raised THEN Return(Err("Error creating " \o what \o ": " \o r1.exc), r1.w, c)
    ELSE CreatePrimitive_on_document(c,
            IF r1.value = <<>> THEN create_document(r1.w, "CADAgentDocument")
            ELSE Returned(r1.w, "not called"),
            what, code, message, name)

CreatePrimitive_try(c, w, what, code, message, name) ==
    IF ~c.client THEN Return(ConnectError, w, c)
    ELSE CreatePrimitive_on_documents(c, list_documents(w), what, code, message, name)

CreatePrimitive(what, code, message, name) ==
    CreatePrimitive_try(get_mcp_client(sysPath), World(docs, objects, bulk),
                        what, code, message, name)

create_box(length, width, height, name) ==
    CreatePrimitive("box",
        [fragment |-> "addObject", typeId |-> "Part::Box", name |-> name,
         props |-> [Length |-> length, Width |-> width, Height |-> height]],
        "Created box with dimensions " \o IntToStr(length) \o "x"
            \o IntToStr(width) \o "x" \o IntToStr(height),
        name)

create_cylinder(radius, height, name) ==
    CreatePrimitive("cylinder",
        [fragment |-> "addObject", typeId |-> "Part::Cylinder", name |-> name,
         props |-> [Radius |-> radius, Height |-> height]],
        "Created cylinder with radius " \o IntToStr(radius) \o " and height "
            \o IntToStr(height),
        name)

create_sphere(radius, name) ==
    CreatePrimitive("sphere",
        [fragment |-> "addObject", typeId |-> "Part::Sphere", name |-> name,
         props |-> [Radius |-> radius]],
        "Created sphere with radius " \o IntToStr(radius),
        name)

valid_operations == <<"fusion", "cut", "common">>

IsValidOperation(operation) ==
    \E i \in 1..Len(valid_operations) : valid_operations[i] = operation

\* boolean_operation as it would be if it went by the "success" entry of the
\* result instead of the word in the output
boolean_operation_on_result_by_flag(c, r, obj1_name, obj2_name, operation, result_name) ==
    IF r.raised THEN Return(Err("Error performing boolean operation: " \o r.exc), r.w, c)
    ELSE IF r.value.isNone
    THEN Return(Err("Error performing boolean operation: "
                    \o "'NoneType' object has no attribute 'get'"), r.w, c)
    ELSE IF Get(r.value, "success", FALSE)
    THEN Return([status |-> "success",
                 message |-> "Performed " \o operation \o " operation between "
                             \o obj1_name \o " and " \o obj2_name,
                 object_name |-> result_name], r.w, c)
    ELSE Return(Err("Error performing boolean operation: "
                    \o Get(r.value, "output", "Unknown error")), r.w, c)

\* A result whose "output" holds the word success is a success
boolean_operation_on_result(c, r, obj1_name, obj2_name, operation, result_name) ==
    IF r.raised THEN Return(Err("Error performing boolean operation: " \o r.exc), r.w, c)
    ELSE IF r.value.isNone
    THEN Return(Err("Error performing boolean operation: "
                    \o "'NoneType' object has no attribute 'get'"), r.w, c)
    ELSE IF Contains(Get(r.value, "output", ""), "success")
    THEN Return([status |-> "success",
                 message |-> "Performed " \o operation \o " operation between "
                             \o obj1_name \o " and " \o obj2_name,
                 object_name |-> result_name], r.w, c)
    ELSE Return(Err("Error performing boolean operation: "
                    \o Get(r.value, "output", "Unknown error")), r.w, c)

\* boolean_operation as it would be with the operation checked only once
\* the fragment has been sent
boolean_operation_try_late(c, w, obj1_name, obj2_name, operation, result_name) ==
    IF ~c.client THEN Return(ConnectError, w, c)
    ELSE IF ~IsValidOperation(operation)
    THEN Return(Err("Invalid operation type: " \o operation
                    \o ". Valid types are: " \o Join(", ", valid_operations)),
                run_python_code(w, [fragment |-> "boolean", obj1_name |-> obj1_name,
                                    obj2_name |-> obj2_name, operation |-> operation,
                                    result_name |-> result_name]).w, c)
    ELSE boolean_operation_on_result(c,
            run_python_code(w, [fragment |-> "boolean", obj1_name |-> obj1_name,
                                obj2_name |-> obj2_name, operation |-> operation,
                                result_name |-> result_name]),
            obj1_name, obj2_name, operation, result_name)

\* boolean_operation as it would be with the operation checked before the
\* client is looked at
boolean_operation_try_validated_first(c, w, obj1_name, obj2_name, operation, result_name) ==
    IF ~IsValidOperation(operation)
    THEN Return(Err("Invalid operation type: " \o operation
                    \o ". Valid types are: " \o Join(", ", valid_operations)), w, c)
    ELSE IF ~c.client THEN Return(ConnectError, w, c)
    ELSE boolean_operation_on_result(c,
            run_python_code(w, [fragment |-> "boolean", obj1_name |-> obj1_name,
                                obj2_name |-> obj2_name, operation |-> operation,
                                result_name |-> result_name]),
            obj1_name, obj2_name, operation, result_name)

boolean_operation_try(c, w, obj1_name, obj2_name, operation, result_name) ==
    IF ~c.client THEN Return(ConnectError, w, c)
    ELSE IF ~IsValidOperation(operation)
    THEN Return(Err("Invalid operation type: " \o operation
                    \o ". Valid types are: " \o Join(", ", valid_operations)), w, c)
    ELSE boolean_operation_on_result(c,
            run_python_code(w, [fragment |-> "boolean", obj1_name |-> obj1_name,
                                obj2_name |-> obj2_name, operation |-> operation,
                                result_name |-> result_name]),
            obj1_name, obj2_name, operation, result_name)

boolean_operation(obj1_name, obj2_name, operation, result_name) ==
    boolean_operation_try(get_mcp_client(sysPath), World(docs, objects, bulk),
                          obj1_name, obj2_name, operation, result_name)

set_object_placement_on_result(c, r, message) ==
    IF r.raised THEN Return(Err("Error setting object placement: " \o r.exc), r.w, c)
    ELSE IF r.value.isNone
    THEN Return(Err("Error setting object placement: "
                    \o "'NoneType' object has no attribute 'get'"), r.w, c)
    ELSE IF Contains(Get(r.value, "output", ""), "success")
    THEN Return([status |-> "success", message |-> message], r.w, c)
    ELSE Return(Err("Error setting object placement: "
                    \o Get(r.value, "output", "Unknown error")), r.w, c)

set_object_placement_try(c, w, obj_name, x, y, z, axis_x, axis_y, axis_z, angle) ==
    IF ~c.client THEN Return(ConnectError, w, c)
    ELSE set_object_placement_on_result(c,
            run_python_code(w, [fragment |-> "placement", obj_name |-> obj_name,
                                position |-> <<x, y, z>>,
                                axis |-> <<axis_x, axis_y, axis_z>>, angle |-> angle]),
            "Set placement of " \o obj_name \o " to position ("
                \o IntToStr(x) \o ", " \o IntToStr(y) \o ", " \o IntToStr(z)
                \o ") with rotation (" \o IntToStr(axis_x) \o ", "
                \o IntToStr(axis_y) \o ", " \o IntToStr(axis_z) \o ", "
                \o IntToStr(angle) \o ")")

set_object_placement(obj_name, x, y, z, axis_x, axis_y, axis_z, angle) ==
    set_object_placement_try(get_mcp_client(sysPath), World(docs, objects, bulk),
                             obj_name, x, y, z, axis_x, axis_y, axis_z, angle)

\* objects = eval(objects_str.strip()), any failure of which is caught
list_objects_on_eval(c, w, objects_str, parsed) ==
    IF parsed.ok THEN Return([status |-> "success", objects |-> parsed.val], w, c)
    ELSE Return(Err("Failed to parse object list: " \o objects_str), w, c)

\* objects_str: the output, stripped
list_objects_on_output(c, w, objects_str) ==
    list_objects_on_eval(c, w, objects_str, PyEval(objects_str))

list_objects_on_result(c, r2) ==
    IF r2.raised THEN Return(Err("Error listing objects: " \o r2.exc), r2.w, c)
    ELSE IF r2.value.isNone
    THEN Return(Err("Error listing objects: "
                    \o "argument of type 'NoneType' is not iterable"), r2.w, c)
    ELSE IF "success" \in DOMAIN r2.value.d /\ r2.value.d["success"]
    THEN list_objects_on_output(c, r2.w, Strip(Get(r2.value, "output", "[]")))
    ELSE Return(Err("Failed to run Python code in FreeCAD"), r2.w, c)

\* list_objects as it would be without its early return on no document
list_objects_on_documents_unchecked(c, r1) ==
    IF r1.raised THEN Return(Err("Error listing objects: " \o r1.exc), r1.w, c)
    ELSE list_objects_on_result(c, run_python_code(r1.w, [fragment |-> "list"]))

list_objects_on_documents(c, r1) ==
    IF r1.raised THEN Return(Err("Error listing objects: " \o r1.exc), r1.w, c)
    ELSE IF r1.value = <<>>
    THEN Return([status |-> "success", objects |-> <<>>,
                 message |-> "No documents found."], r1.w, c)
    ELSE list_objects_on_result(c, run_python_code(r1.w, [fragment |-> "list"]))

\* list_objects as it would be if it answered from a list kept from before
\* instead of asking
list_objects_try_remembered(c, w) ==
    IF ~c.client THEN Return(ConnectError, w, c)
    ELSE Return([status |-> "success", objects |-> <<>>], w, c)

list_objects_try(c, w) ==
    IF ~c.client THEN Return(ConnectError, w, c)
    ELSE list_objects_on_documents(c, list_documents(w))

list_objects == list_objects_try(get_mcp_client(sysPath), World(docs, objects, bulk))

\* the extension appended whatever the filename ends with
NormalizeFilename_always(filename) == filename \o ".FCStd"

\* filename with the extension ensured
NormalizeFilename(filename) ==
    IF ~EndsWith(filename, ".FCStd") THEN filename \o ".FCStd" ELSE filename

\* filename: the name with its extension ensured
save_document_on_result(c, r2, filename) ==
    IF r2.raised THEN Return(Err("Error saving document: " \o r2.exc), r2.w, c)
    ELSE Return([status |-> "success", message |-> "Document saved as " \o filename],
                r2.w, c)

\* save_document as it would be without its check for a document
save_document_on_documents_unchecked(c, r1, filename) ==
    IF r1.raised THEN Return(Err("Error saving document: " \o r1.exc), r1.w, c)
    ELSE save_document_on_result(c,
            run_python_code(r1.w, [fragment |-> "saveAs",
                                   filename |-> NormalizeFilename(filename)]),
            NormalizeFilename(filename))

save_document_on_documents(c, r1, filename) ==
    IF r1.raised THEN Return(Err("Error saving document: " \o r1.exc), r1.w, c)
    ELSE IF r1.value = <<>> THEN Return(Err("No document found to save."), r1.w, c)
    ELSE save_document_on_result(c,
            run_python_code(r1.w, [fragment |-> "saveAs",
                                   filename |-> NormalizeFilename(filename)]),
            NormalizeFilename(filename))

save_document_try(c, w, filename) ==
    IF ~c.client THEN Return(ConnectError, w, c)
    ELSE save_document_on_documents(c, list_documents(w), filename)

save_document(filename) ==
    save_document_try(get_mcp_client(sysPath), World(docs, objects, bulk), filename)

----------------------------------------------------------------------------
(* tools/analysis_tools.py *)

\* The three calculate_* functions build their fragment as an f-string.  Its
\* replacement fields are, besides {obj_name}, the single-braced {volume},
\* {area} and {center.x} of the lines meant to be printed remotely: they are
\* evaluated locally, when the fragment is built, where `volume` and `area`
\* are locals assigned only after the call and `center` is no name at all.

\* match: re.search(r"'volume': (\d+\.?\d*)", output)
calculate_volume_on_search(c, r, match) ==
    IF Contains(Get(r.value, "output", ""), "success") /\ match.found
    THEN Return([status |-> "success", volume |-> PyFloat(match.group1).val,
                 unit |-> "mm^3"], r.w, c)
    ELSE Return(Err("Error calculating volume: "
                    \o Get(r.value, "output", "Unknown error")), r.w, c)

calculate_volume_on_result(c, r) ==
    IF r.raised THEN Return(Err("Error calculating volume: " \o r.exc), r.w, c)
    ELSE IF r.value.isNone
    THEN Return(Err("Error calculating volume: "
                    \o "'NoneType' object has no attribute 'get'"), r.w, c)
    ELSE calculate_volume_on_search(c, r,
            ReSearchUnsigned(Get(r.value, "output", ""), "volume", 1))

\* f: the evaluation of the f-string
calculate_volume_on_fstring(c, w, f, obj_name) ==
    IF f.raised THEN Return(Err("Error calculating volume: " \o f.exc), w, c)
    ELSE calculate_volume_on_result(c,
            run_python_code(w, [fragment |-> "measure", obj_name |-> obj_name,
                line |-> "Volume calculation: {'status': 'success', 'volume': , 'unit': 'mm^3'}"]))

calculate_volume_try(c, w, obj_name) ==
    IF ~c.client THEN Return(ConnectError, w, c)
    ELSE calculate_volume_on_fstring(c, w,
            FString(<<"obj_name", "obj_name", "obj_name", "volume", "volume",
                      "obj_name", "obj_name">>,
                    {"obj_name", "client"},
                    {"client", "result", "re", "match", "volume", "error_msg", "e"}),
            obj_name)

calculate_volume(obj_name) ==
    calculate_volume_try(get_mcp_client(sysPath), World(docs, objects, bulk), obj_name)

\* match: re.search(r"'area': (\d+\.?\d*)", output)
calculate_surface_area_on_search(c, r, match) ==
    IF Contains(Get(r.value, "output", ""), "success") /\ match.found
    THEN Return([status |-> "success", area |-> PyFloat(match.group1).val,
                 unit |-> "mm^2"], r.w, c)
    ELSE Return(Err("Error calculating surface area: "
                    \o Get(r.value, "output", "Unknown error")), r.w, c)

calculate_surface_area_on_result(c, r) ==
    IF r.raised THEN Return(Err("Error calculating surface area: " \o r.exc), r.w, c)
    ELSE IF r.value.isNone
    THEN Return(Err("Error calculating surface area: "
                    \o "'NoneType' object has no attribute 'get'"), r.w, c)
    ELSE calculate_surface_area_on_search(c, r,
            ReSearchUnsigned(Get(r.value, "output", ""), "area", 1))

calculate_surface_area_on_fstring(c, w, f, obj_name) ==
    IF f.raised THEN Return(Err("Error calculating surface area: " \o f.exc), w, c)
    ELSE calculate_surface_area_on_result(c,
            run_python_code(w, [fragment |-> "measure", obj_name |-> obj_name,
                line |-> "Area calculation: {'status': 'success', 'area': , 'unit': 'mm^2'}"]))

calculate_surface_area_try(c, w, obj_name) ==
    IF ~c.client THEN Return(ConnectError, w, c)
    ELSE calculate_surface_area_on_fstring(c, w,
            FString(<<"obj_name", "obj_name", "obj_name", "area", "area",
                      "obj_name", "obj_name">>,
                    {"obj_name", "client"},
                    {"client", "result", "re", "match", "area", "error_msg", "e"}),
            obj_name)

calculate_surface_area(obj_name) ==
    calculate_surface_area_try(get_mcp_client(sysPath), World(docs, objects, bulk),
                               obj_name)

\* str(e) of the ValueError float() raises
FloatError(text) == "could not convert string to float: '" \o text \o "'"

\* x, y, z: float() of the three groups, in this order
calculate_center_of_mass_on_floats(c, r, x, y, z) ==
    IF ~x.ok THEN Return(Err("Error calculating center of mass: " \o FloatError(x.val)),
                         r.w, c)
    ELSE IF ~y.ok
    THEN Return(Err("Error calculating center of mass: " \o FloatError(y.val)), r.w, c)
    ELSE IF ~z.ok
    THEN Return(Err("Error calculating center of mass: " \o FloatError(z.val)), r.w, c)
    ELSE Return([status |-> "success",
                 center_of_mass |-> [x |-> x.val, y |-> y.val, z |-> z.val],
                 unit |-> "mm"], r.w, c)

\* match: re.search(r"'x': ([-\d.]+), 'y': ([-\d.]+), 'z': ([-\d.]+)", output)
calculate_center_of_mass_on_search(c, r, match) ==
    IF Contains(Get(r.value, "output", ""), "success") /\ match.found
    THEN calculate_center_of_mass_on_floats(c, r, PyFloat(match.group1),
                                            PyFloat(match.group2), PyFloat(match.group3))
    ELSE Return(Err("Error calculating center of mass: "
                    \o Get(r.value, "output", "Unknown error")), r.w, c)

calculate_center_of_mass_on_result(c, r) ==
    IF r.raised THEN Return(Err("Error calculating center of mass: " \o r.exc), r.w, c)
    ELSE IF r.value.isNone
    THEN Return(Err("Error calculating center of mass: "
                    \o "'NoneType' object has no attribute 'get'"), r.w, c)
    ELSE calculate_center_of_mass_on_search(c, r,
            ReSearchTriple(Get(r.value, "output", ""), 1))

calculate_center_of_mass_on_fstring(c, w, f, obj_name) ==
    IF f.raised THEN Return(Err("Error calculating center of mass: " \o f.exc), w, c)
    ELSE calculate_center_of_mass_on_result(c,
            run_python_code(w, [fragment |-> "measure", obj_name |-> obj_name,
                line |-> "Center of mass: {'status': 'success', 'x': , 'y': , 'z': , 'unit': 'mm'}"]))

calculate_center_of_mass_try(c, w, obj_name) ==
    IF ~c.client THEN Return(ConnectError, w, c)
    ELSE calculate_center_of_mass_on_fstring(c, w,
            FString(<<"obj_name", "obj_name", "obj_name", "center", "center",
                      "center", "center", "center", "center", "obj_name",
                      "obj_name">>,
                    {"obj_name", "client"},
                    {"client", "result", "re", "match", "x", "y", "z",
                     "error_msg", "e"}),
            obj_name)

calculate_center_of_mass(obj_name) ==
    calculate_center_of_mass_try(get_mcp_client(sysPath), World(docs, objects, bulk),
                                 obj_name)

\* The fragment is a plain string here.  What json.loads makes of the output
\* is returned as it is.
analyze_model_structure_on_loads(c, w, output, analysis) ==
    IF analysis.ok THEN Outcome(analysis.val, analysis.ty, w, c)
    ELSE Return(Err("Failed to parse analysis result: " \o output), w, c)

analyze_model_structure_on_output(c, w, output) ==
    analyze_model_structure_on_loads(c, w, output, JsonLoads(output))

analyze_model_structure_on_result(c, r) ==
    IF r.raised THEN Return(Err("Error analyzing model structure: " \o r.exc), r.w, c)
    ELSE IF Truthy(r.value)
    THEN analyze_model_structure_on_output(c, r.w, Get(r.value, "output", "{}"))
    ELSE Return(Err("Failed to run analysis script"), r.w, c)

\* analyze_model_structure as it would be without its check of the client
analyze_model_structure_try_unchecked(c, w) ==
    analyze_model_structure_on_result(c, run_python_code(w, [fragment |-> "analyze"]))

analyze_model_structure_try(c, w) ==
    IF ~c.client THEN Return(ConnectError, w, c)
    ELSE analyze_model_structure_on_result(c, run_python_code(w, [fragment |-> "analyze"]))

analyze_model_structure ==
    analyze_model_structure_try(get_mcp_client(sysPath), World(docs, objects, bulk))

----------------------------------------------------------------------------
(* The inputs *)

\* The outputs of the stub transports
\* The units mm followed by a superscript 3 or 2 in the source are written
\* mm^3 and mm^2 here, the strings of the model being ASCII
VolumeOutput == "Volume calculation: {'status': 'success', 'volume': 12.5, 'unit': 'mm^3'}"

CenterOutput ==
    "Center of mass: {'status': 'success', 'x': -1.0, 'y': 2.5, 'z': 0.0, 'unit': 'mm'}"

\* a line of output that is a Python expression and no list
NumberOutput == "12"

CannedOutputs == {VolumeOutput, CenterOutput, "[]", NumberOutput}

\* The clients that get constructed
ClientBehaviours ==
    {Behaviour("client", m, "printed", "") :
        m \in {"get_version", "list_documents", "create_document", "run_python_code"}}
    \cup {Behaviour("client", "none", r, "") :
            r \in {"printed", "printed_no_flag", "no_output", "empty", "None"}}
    \cup {Behaviour("client", "none", "flag_false", "Error: execution failed")}
    \cup {Behaviour("client", "none", "canned", t) : t \in CannedOutputs}

\* The clients that do not
NoClientBehaviours ==
    {Behaviour("ImportError", "none", "printed", ""),
     Behaviour("Exception", "none", "printed", "")}

BoxObj == Obj("Box", "Part::Box", TRUE, 6000 * VolumeUnit)

CylinderObj == Obj("Cylinder", "Part::Cylinder", TRUE, 314159 * 250)

\* a sliver of volume 0.00005
TinyObj == Obj("Tiny", "Part::Feature", TRUE, 5)

\* exactly at the threshold, 0.0001
EdgeObj == Obj("Edge", "Part::Feature", TRUE, 10)

\* an object without a Shape
MeshObj == Obj("Mesh", "Mesh::Feature", FALSE, 0)

NoDocument == [docs |-> <<>>, objects |-> <<>>, bulk |-> 0]

Document(objs, nbulk) == [docs |-> <<"Unnamed">>, objects |-> objs, bulk |-> nbulk]

\* The documents FreeCAD may hold when an environment is set up
Fixtures ==
    {NoDocument, Document(<<>>, 0), Document(<<BoxObj>>, 0),
     Document(<<MeshObj, EdgeObj>>, 0),
     Document(<<BoxObj>>, BulkObjects), Document(<<BoxObj, TinyObj>>, BulkObjects)}

Environment(exists, behaviour, fixture) ==
    [mcpDirExists |-> exists, stub |-> behaviour, fixture |-> fixture]

\* The environments: every client that gets constructed with every document;
\* where no client is to be had (the source directory is missing, the import
\* or the constructor fails) the document is out of reach, and two stand for
\* all.
Environments ==
    {Environment(TRUE, b, f) : b \in ClientBehaviours, f \in Fixtures}
    \cup {Environment(TRUE, b, f) :
            b \in NoClientBehaviours, f \in {NoDocument, Document(<<BoxObj>>, 0)}}
    \cup {Environment(FALSE, WellBehaved, f) :
            f \in {NoDocument, Document(<<BoxObj>>, 0)}}

\* Names asked for: an object of the fixtures, and two names no fixture
\* holds, the second with the word the tools look for in an output
ObjectNames == {"Box", "Ghost", "success_plate"}

\* (obj1_name, obj2_name, operation) of boolean_operation
BooleanArgs ==
    {<<"Box", "Box", op>> : op \in {"fusion", "cut", "common", "xor"}}
    \cup {<<"Ghost", "Box", "fusion">>, <<"Box", "Ghost", "cut">>,
          <<"Ghost", "Ghost", "union">>, <<"Box", "success_plate", "cut">>}

Filenames == {"plan", "plan.FCStd", "plan.fcstd", ".FCStd"}

\* sys.path when the process starts: without the freecad-mcp sources, or with
\* them already there behind the installed packages
InitialPaths == {<<"site-packages">>, <<"site-packages", McpSrcDir>>}

----------------------------------------------------------------------------------------------------------------------------------------
(* The processes start-up may run in *)

\* the environment of a process with an API key and nothing else
ApiKeyEnviron == Environ(Unset, Unset, Unset, "key")

\* The environments a process is started with
Environs ==
    {Environ(vertex, project, location, key) :
        vertex \in {Unset, "True", "true"}, project \in {Unset, "my-project"},
        location \in {Unset, "us-central1"}, key \in {Unset, "", "key"}}

\* no .env file, or one without a variable of EnvKeys
NoDotenv == Environ(Unset, Unset, Unset, Unset)

DotenvFiles == {NoDotenv, Environ(Unset, Unset, Unset, "key-of-file")}

\* from_server and the scope it returns: connect is "raises" or "tools",
\* tools the names of the tools listed, aclose is "ok" or "raises"
Server(connect, tools, aclose) == [connect |-> connect, tools |-> tools, aclose |-> aclose]

ServingTools == Server("tools", <<"execute_code", "get_objects">>, "ok")

Servers ==
    {Server("raises", <<>>, "ok")}
    \cup {Server("tools", t, a) :
            t \in {<<>>, <<"execute_code", "get_objects">>}, a \in {"ok", "raises"}}

\* The installations: the source directory and freecad_mcp.client.Client
Installations ==
    {Environment(TRUE, b, Document(<<BoxObj>>, 0)) :
        b \in NoClientBehaviours
              \cup {WellBehaved, Behaviour("client", "list_documents", "printed", "")}}
    \cup {Environment(FALSE, WellBehaved, Document(<<BoxObj>>, 0))}

NoBoot == [op |-> "none"]

----------------
(* The state machine *)

NoCall == [tool |-> "none"]

NoList == [seen |-> FALSE]

Init ==
    /\ sysPath \in InitialPaths
    /\ \E e \in Environments :
        /\ mcpDirExists = e.mcpDirExists
        /\ stub = e.stub
        /\ docs = e.fixture.docs
        /\ objects = e.fixture.objects
        /\ bulk = e.fixture.bulk
    /\ call = NoCall
    /\ prevList = NoList
    /\ environ = ApiKeyEnviron
    /\ dotenv = NoDotenv
    /\ server = ServingTools
    /\ boot = NoBoot

\* The environment changes between invocations: the installation, the
\* client in place, the document FreeCAD holds.
Reconfigure ==
    /\ \E e \in Environments :
        /\ mcpDirExists' = e.mcpDirExists
        /\ stub' = e.stub
        /\ docs' = e.fixture.docs
        /\ objects' = e.fixture.objects
        /\ bulk' = e.fixture.bulk
    /\ call' = NoCall
    /\ prevList' = NoList
    /\ UNCHANGED <<sysPath, startupVars>>

\* One invocation of a tool function, with outcome o
Invoke(tool, args, o) ==
    /\ Len(o.objects) <= MaxObjects
    /\ call' = [tool |-> tool, args |-> args, ret |-> o.ret, pytype |-> o.pytype,
                escaped |-> o.escaped, acquired |-> o.acquired, log |-> o.log]
    /\ prevList' = IF call.tool = "list_objects"
                   THEN [seen |-> TRUE, ret |-> call.ret, pytype |-> call.pytype]
                   ELSE NoList
    /\ docs' = o.docs
    /\ objects' = o.objects
    /\ bulk' = o.bulk
    /\ sysPath' = o.sysPath
    /\ UNCHANGED <<mcpDirExists, stub, startupVars>>

GetFreecadVersion == Invoke("get_freecad_version", <<>>, get_freecad_version)

CreateBox == Invoke("create_box", <<10, 20, 30, "Box">>, create_box(10, 20, 30, "Box"))

CreateCylinder ==
    Invoke("create_cylinder", <<5, 10, "Cylinder">>, create_cylinder(5, 10, "Cylinder"))

CreateSphere == Invoke("create_sphere", <<5, "Sphere">>, create_sphere(5, "Sphere"))

BooleanOperation ==
    \E a \in BooleanArgs :
        Invoke("boolean_operation", <<a[1], a[2], a[3], "BooleanResult">>,
               boolean_operation(a[1], a[2], a[3], "BooleanResult"))

SetObjectPlacement ==
    \E n \in ObjectNames :
        Invoke("set_object_placement", <<n, 1, 2, 3, 0, 0, 1, 90>>,
               set_object_placement(n, 1, 2, 3, 0, 0, 1, 90))

ListObjects == Invoke("list_objects", <<>>, list_objects)

SaveDocument ==
    \E fn \in Filenames : Invoke("save_document", <<fn>>, save_document(fn))

CalculateVolume ==
    \E n \in ObjectNames : Invoke("calculate_volume", <<n>>, calculate_volume(n))

CalculateSurfaceArea ==
    \E n \in ObjectNames :
        Invoke("calculate_surface_area", <<n>>, calculate_surface_area(n))

CalculateCenterOfMass ==
    \E n \in ObjectNames :
        Invoke("calculate_center_of_mass", <<n>>, calculate_center_of_mass(n))

AnalyzeModelStructure == Invoke("analyze_model_structure", <<>>, analyze_model_structure)

Next ==
    \/ Reconfigure
    \/ GetFreecadVersion
    \/ CreateBox
    \/ CreateCylinder
    \/ CreateSphere
    \/ BooleanOperation
    \/ SetObjectPlacement
    \/ ListObjects
    \/ SaveDocument
    \/ CalculateVolume
    \/ CalculateSurfaceArea
    \/ CalculateCenterOfMass
    \/ AnalyzeModelStructure

Spec == Init /\ [][Next]_vars

----------------------------------------------------------------------------
(* Start-up: the provider, main.py, and the scripts that test the connection *)

StartupInit ==
    /\ sysPath \in InitialPaths
    /\ \E e \in Installations :
        /\ mcpDirExists = e.mcpDirExists
        /\ stub = e.stub
        /\ docs = e.fixture.docs
        /\ objects = e.fixture.objects
        /\ bulk = e.fixture.bulk
    /\ call = NoCall
    /\ prevList = NoList
    /\ environ \in Environs
    /\ dotenv \in DotenvFiles
    /\ server \in Servers
    /\ boot = NoBoot

\* A new process: its environment, its .env file, its module search path
Restart ==
    /\ sysPath' \in InitialPaths
    /\ environ' \in Environs
    /\ dotenv' \in DotenvFiles
    /\ boot' = NoBoot
    /\ UNCHANGED <<mcpDirExists, stub, docs, objects, bulk, call, prevList, server>>

\* The installation and the MCP server change between two start-ups
Reinstall ==
    /\ \E e \in Installations :
        /\ mcpDirExists' = e.mcpDirExists
        /\ stub' = e.stub
    /\ server' \in Servers
    /\ boot' = NoBoot
    /\ UNCHANGED <<sysPath, docs, objects, bulk, call, prevList, environ, dotenv>>

\* What a function of the provider did becomes the observation
Observe(op, o) ==
    /\ boot' = [op |-> op] @@ o
    /\ sysPath' = o.sysPath
    /\ UNCHANGED <<mcpDirExists, stub, docs, objects, bulk, call, prevList,
                   environ, dotenv, server>>

\* What a start-up function did becomes the observation; the variables
\* load_dotenv() set stay set
Start(op, b) ==
    /\ boot' = [op |-> op] @@ b
    /\ sysPath' = b.sysPath
    /\ environ' = b.environ
    /\ UNCHANGED <<mcpDirExists, stub, docs, objects, bulk, call, prevList,
                   dotenv, server>>

SetupMcpEnvironment == Observe("setup_mcp_environment", setup_mcp_environment(sysPath))

GetMcpClient == Observe("get_mcp_client", get_mcp_client(sysPath))

GetMcpToolsAsync == Observe("get_mcp_tools_async", get_mcp_tools_async(sysPath))

CheckMcpConnection == Observe("check_mcp_connection", check_mcp_connection)

SetupEnvironmentAsync == Start("setup_environment_async", setup_environment_async)

StartAppAsync == Start("start_app_async", start_app_async)

TestAdkSetup == Start("test_adk_setup", test_adk_setup)

CheckMcpConnectionAsync == Start("check_mcp_connection_async", check_mcp_connection_async)

TestAdkWithFreecad ==
    \E exists \in BOOLEAN, process \in ProcessBehaviours :
        Start("test_adk_with_freecad",
              [process |-> process] @@ test_adk_with_freecad(exists, process))

StartupNext ==
    \/ Restart
    \/ Reinstall
    \/ SetupMcpEnvironment
    \/ GetMcpClient
    \/ GetMcpToolsAsync
    \/ CheckMcpConnection
    \/ SetupEnvironmentAsync
    \/ StartAppAsync
    \/ TestAdkSetup
    \/ CheckMcpConnectionAsync
    \/ TestAdkWithFreecad

Startup == StartupInit /\ [][StartupNext]_vars

----------------------------------------------------------------------------
(* What the invocation completed last shows *)

\* get_mcp_client() gives a client: the source directory is there, the import
\* and the constructor succeed
HasClient == mcpDirExists /\ stub.acquire = "client"

Completed == call.tool # "none"

\* The client call op was issued during the last invocation
Issued(op) == Completed /\ \E i \in 1..Len(call.log) : call.log[i].op = op

\* The fragments sent during the last invocation, in order
SentFragments ==
    LET IsRun(e) == e.op = "run_python_code"
        runs == SelectSeq(call.log, IsRun)
    IN  [i \in 1..Len(runs) |-> runs[i].code]

ToolNames ==
    {"get_freecad_version", "create_box", "create_cylinder", "create_sphere",
     "boolean_operation", "set_object_placement", "list_objects", "save_document",
     "calculate_volume", "calculate_surface_area", "calculate_center_of_mass",
     "analyze_model_structure"}

\* The last invocation returned a dict with status "error" and a message
ReturnedError ==
    /\ call.escaped = "none"
    /\ call.pytype = "dict"
    /\ DOMAIN call.ret = {"status", "error_message"}
    /\ call.ret.status = "error"
    /\ call.ret.error_message \in STRING

----------------------------------------------------------------------------
(* The claims *)

\* C1: whatever the tool function and its arguments, when get_mcp_client
\* returns None the function returns {status: "error", error_message:
\* "Failed to connect to FreeCAD MCP server."}, has asked for the client
\* exactly once, has issued no remote call, and has not raised.
C1_NoClientConnectError ==
    (Completed /\ ~HasClient) =>
        /\ call.tool \in ToolNames
        /\ call.escaped = "none"
        /\ call.log = <<>>
        /\ call.acquired = 1
        /\ call.pytype = "dict"
        /\ call.ret = [status |-> "error",
                       error_message |-> "Failed to connect to FreeCAD MCP server."]

C1_Witness ==
    /\ call.tool = "boolean_operation"
    /\ stub.acquire = "ImportError"
    /\ call.ret = ConnectError
    /\ call.log = <<>>

\* The client call that stub.raises names was issued, and raised
RemoteCallRaised == stub.raises # "none" /\ Issued(stub.raises)

\* A local step of the last invocation raised: the f-string of a calculate_*
\* function, the use of a None result, or eval / json.loads on text that is
\* no list and no JSON
LocalStepRaised ==
    \/ call.tool \in {"calculate_volume", "calculate_surface_area",
                      "calculate_center_of_mass"}
    \/ /\ stub.run = "None"
       /\ Issued("run_python_code")
       /\ call.tool \in {"boolean_operation", "set_object_placement", "list_objects"}
    \/ /\ stub.run = "canned"
       /\ stub.text \in {VolumeOutput, CenterOutput}
       /\ Issued("run_python_code")
       /\ call.tool \in {"list_objects", "analyze_model_structure"}

\* C2: with a client, when a remote call of the invocation raises, or a
\* local step of building the request or reading the response raises, the
\* function returns an envelope with status "error" and a string
\* error_message, and no exception leaves the function.
C2_RaiseBecomesErrorEnvelope ==
    (Completed /\ HasClient /\ (RemoteCallRaised \/ LocalStepRaised)) => ReturnedError

C2_Witness ==
    /\ call.tool = "create_box"
    /\ HasClient
    /\ stub.raises = "create_document"
    /\ Issued("create_document")
    /\ call.ret = Err("Error creating box: " \o TransportError)

\* C3: boolean_operation with a client and an operation outside {fusion,
\* cut, common} returns an error envelope whose message cites the value
\* given and the valid set, and issues no call on the client.
C3_InvalidOperationRejected ==
    (/\ call.tool = "boolean_operation"
     /\ HasClient
     /\ call.args[3] \notin {"fusion", "cut", "common"}) =>
        /\ call.log = <<>>
        /\ ReturnedError
        /\ Contains(call.ret.error_message, call.args[3])
        /\ Contains(call.ret.error_message, "fusion, cut, common")

C3_Witness ==
    /\ call.tool = "boolean_operation"
    /\ HasClient
    /\ call.args[3] = "xor"
    /\ call.log = <<>>
    /\ call.ret.error_message
        = "Invalid operation type: xor. Valid types are: fusion, cut, common"

\* The value is a result envelope: a dict whose status is "success" or
\* "error", with error_message exactly on an error and payload fields
\* exactly on a success
IsEnvelope(ret, pytype) ==
    /\ pytype = "dict"
    /\ "status" \in DOMAIN ret
    /\ ret.status \in {"success", "error"}
    /\ ("error_message" \in DOMAIN ret) <=> (ret.status = "error")
    /\ (DOMAIN ret \ {"status", "error_message"} # {}) <=> (ret.status = "success")

\* C4: every value a tool function returns is a result envelope: status is
\* "success" or "error", error_message is there exactly when status is
\* "error", payload fields exactly when it is "success"; this includes what
\* analyze_model_structure returns from the decoded remote output.
C4_EveryReturnIsEnvelope ==
    (Completed /\ call.escaped = "none") => IsEnvelope(call.ret, call.pytype)

\* C5: list_objects with a client whose list_documents returns an empty
\* collection returns exactly {status: "success", objects: [], message:
\* "No documents found."} and issues no run_python_code call.
C5_NoDocumentsListsNothing ==
    (/\ call.tool = "list_objects"
     /\ HasClient
     /\ stub.raises # "list_documents"
     /\ docs = <<>>) =>
        /\ ~Issued("run_python_code")
        /\ call.log = <<[op |-> "list_documents"]>>
        /\ call.pytype = "dict"
        /\ call.ret = [status |-> "success", objects |-> <<>>,
                       message |-> "No documents found."]

C5_Witness ==
    /\ call.tool = "list_objects"
    /\ HasClient
    /\ docs = <<>>
    /\ stub.run = "printed"
    /\ call.ret.status = "success"
    /\ call.ret.message = "No documents found."

\* The object named by the last invocation's first argument is in the
\* document and has a Shape
MeasuredObjectFound ==
    /\ docs # <<>>
    /\ HasName(DocObjects(objects, bulk), call.args[1])
    /\ GetObject(DocObjects(objects, bulk), call.args[1]).hasShape

\* C6: calculate_volume with a client whose run_python_code returns output
\* holding a success marker and the text 'volume': 12.5 returns {status:
\* "success", volume: 12.5, unit: "mm^3"}; and for an object found, the
\* volume returned is the non-negative decimal FreeCAD printed.
C6_VolumeReadFromOutput ==
    (/\ call.tool = "calculate_volume"
     /\ HasClient
     /\ stub.raises = "none") =>
        /\ (stub.run = "canned" /\ stub.text = VolumeOutput) =>
                /\ call.pytype = "dict"
                /\ call.ret = [status |-> "success", volume |-> Decimal(125, 1),
                               unit |-> "mm^3"]
        /\ (stub.run = "printed" /\ MeasuredObjectFound) =>
                /\ call.pytype = "dict"
                /\ call.ret = [status |-> "success",
                               volume |-> Decimal(GetObject(DocObjects(objects, bulk),
                                                            call.args[1]).Volume, 5),
                               unit |-> "mm^3"]

\* C7: calculate_center_of_mass with a client whose output holds a success
\* marker and 'x': -1.0, 'y': 2.5, 'z': 0.0 returns {status: "success",
\* center_of_mass: {x: -1.0, y: 2.5, z: 0.0}, unit: "mm"}: the sign and the
\* decimals of each coordinate are those of the text.
C7_CenterReadFromOutput ==
    (/\ call.tool = "calculate_center_of_mass"
     /\ HasClient
     /\ stub.raises = "none"
     /\ stub.run = "canned"
     /\ stub.text = CenterOutput) =>
        /\ call.pytype = "dict"
        /\ call.ret = [status |-> "success",
                       center_of_mass |-> [x |-> Decimal(-10, 1), y |-> Decimal(25, 1),
                                           z |-> Decimal(0, 1)],
                       unit |-> "mm"]

\* C8: save_document with a document present hands the remote save a
\* filename that ends with ".FCStd", appended once: "plan" is saved as
\* "plan.FCStd" and so is "plan.FCStd"; a filename that has the extension
\* is left as it is, normalising twice changes nothing, and the success
\* message names the filename sent.
C8_ExtensionEnsuredOnce ==
    (call.tool = "save_document" /\ Issued("run_python_code")) =>
        /\ Len(SentFragments) = 1
        /\ SentFragments[1].fragment = "saveAs"
        /\ EndsWith(SentFragments[1].filename, ".FCStd")
        /\ (call.args[1] = "plan") => (SentFragments[1].filename = "plan.FCStd")
        /\ (call.args[1] = "plan.FCStd") => (SentFragments[1].filename = "plan.FCStd")
        /\ EndsWith(call.args[1], ".FCStd") => (SentFragments[1].filename = call.args[1])
        /\ NormalizeFilename(SentFragments[1].filename) = SentFragments[1].filename
        /\ (call.ret.status = "success") =>
                (call.ret.message = "Document saved as " \o SentFragments[1].filename)

C8_Witness ==
    /\ call.tool = "save_document"
    /\ call.args = <<"plan">>
    /\ Issued("run_python_code")
    /\ SentFragments[1].filename = "plan.FCStd"
    /\ call.ret = [status |-> "success", message |-> "Document saved as plan.FCStd"]

\* Some entry of potential_issues or recommendations holds the text
SomeEntryHolds(entries, text) == \E k \in 1..Len(entries) : Contains(entries[k], text)

\* C9: analyze_model_structure on a document of more than 100 objects (101,
\* say) returns a potential_issues entry on the large number of objects; on
\* a document with an object of shape volume 0.00005 it returns an entry
\* that names the object and the recommendation on zero-volume objects;
\* the envelope carries object_count, object_types, potential_issues and
\* recommendations as the remote script computed them.
C9_AnalysisFlagsIssues ==
    (/\ call.tool = "analyze_model_structure"
     /\ HasClient
     /\ stub.raises = "none"
     /\ stub.run = "printed"
     /\ docs # <<>>) =>
        /\ call.pytype = "dict"
        /\ DOMAIN call.ret = {"status", "object_count", "object_types",
                              "potential_issues", "recommendations"}
        /\ call.ret.status = "success"
        /\ call.ret.object_count = bulk + Len(objects)
        /\ \A o \in {objects[i] : i \in 1..Len(objects)} \cup {BulkObj(i) : i \in 1..bulk} :
            /\ o.TypeId \in DOMAIN call.ret.object_types
            /\ call.ret.object_types[o.TypeId]
                = Cardinality({i \in 1..Len(objects) : objects[i].TypeId = o.TypeId})
                    + (IF o.TypeId = BulkObj(1).TypeId THEN bulk ELSE 0)
            /\ (o.hasShape /\ o.Volume = VolumeUnit \div 20000) =>
                /\ \E k \in 1..Len(call.ret.potential_issues) :
                    /\ Contains(call.ret.potential_issues[k], "zero or very small volume")
                    /\ Contains(call.ret.potential_issues[k], o.Name)
                /\ SomeEntryHolds(call.ret.recommendations, "zero-volume objects")
        /\ (bulk + Len(objects) >= 101) =>
                SomeEntryHolds(call.ret.potential_issues, "Large number of objects")

C9_Witness ==
    /\ call.tool = "analyze_model_structure"
    /\ HasClient
    /\ stub.run = "printed"
    /\ bulk + Len(objects) = 101
    /\ \E i \in 1..Len(objects) : objects[i] = TinyObj
    /\ call.ret.potential_issues
        = <<LargeCountIssue, "Objects with zero or very small volume: Tiny">>
    /\ call.ret.recommendations = <<SimplifyRecommendation, ZeroVolumeRecommendation>>

\* C10: two list_objects calls in a row, the remote document and the
\* client's responses unchanged in between, return identical envelopes:
\* the first call leaves nothing behind that changes the second.
C10_ListObjectsRepeats ==
    (call.tool = "list_objects" /\ prevList.seen) =>
        /\ call.pytype = prevList.pytype
        /\ call.ret = prevList.ret

C10_Witness ==
    /\ call.tool = "list_objects"
    /\ prevList.seen
    /\ HasClient
    /\ sysPath = <<McpSrcDir, "site-packages">>
    /\ stub.run = "printed"
    /\ call.ret = [status |-> "success", objects |-> <<"Box">>]

\* The fragment sent during the last invocation was reported failed by the
\* remote side in the result it returned: the success flag is false, or
\* FreeCAD ran the fragment without an active document and it broke
RemoteReportedFailure ==
    /\ Issued("run_python_code")
    /\ stub.raises = "none"
    /\ \/ stub.run = "flag_false"
       \/ /\ stub.run = "printed"
          /\ docs = <<>>
          /\ call.tool # "analyze_model_structure"

\* C11: whatever the tool function that sends a fragment, when the remote
\* execution reports a failure in the result it returns, without raising,
\* the envelope returned has status "error": no tool returns "success"
\* for a remote operation that reported failure.
C11_RemoteFailureIsError ==
    (Completed /\ HasClient /\ RemoteReportedFailure) =>
        /\ call.pytype = "dict"
        /\ "status" \in DOMAIN call.ret
        /\ call.ret.status = "error"

\* The name of the first operand of the last boolean_operation or
\* set_object_placement that the document does not hold; "" if it holds all
MissingTarget ==
    IF ~HasName(DocObjects(objects, bulk), call.args[1]) THEN call.args[1]
    ELSE IF call.tool = "boolean_operation"
            /\ ~HasName(DocObjects(objects, bulk), call.args[2])
    THEN call.args[2]
    ELSE ""

\* C12: boolean_operation and set_object_placement, whatever the object
\* names: when a target named is not in the remote document (the fragment
\* takes its "not found" branch and prints the error), the function
\* returns an envelope with status "error" whose error_message carries the
\* text the remote side reported.
C12_MissingTargetIsError ==
    (/\ call.tool \in {"boolean_operation", "set_object_placement"}
     /\ HasClient
     /\ stub.raises = "none"
     /\ stub.run = "printed"
     /\ docs # <<>>
     /\ Issued("run_python_code")
     /\ MissingTarget # "") =>
        /\ ReturnedError
        /\ Contains(call.ret.error_message,
                    "Error: Object '" \o MissingTarget \o "' not found")

\* The text is not what the tool of the last invocation expects of an
\* output: no list display for list_objects, no JSON for
\* analyze_model_structure, no field of the pattern for a calculate_*
Unparsable(text) ==
    CASE call.tool = "list_objects" ->
            ~PyEval(Strip(text)).ok \/ PyEval(Strip(text)).ty # "list"
      [] call.tool = "analyze_model_structure" -> ~JsonLoads(text).ok
      [] call.tool = "calculate_volume" -> ~ReSearchUnsigned(text, "volume", 1).found
      [] call.tool = "calculate_surface_area" -> ~ReSearchUnsigned(text, "area", 1).found
      [] call.tool = "calculate_center_of_mass" -> ~ReSearchTriple(text, 1).found
      [] OTHER -> FALSE

\* C13: when the remote output cannot be parsed into the result expected
\* (list_objects output that is no list, analyze_model_structure output
\* that is no JSON, calculate_* output without the field looked for), the
\* tool returns an error envelope whose error_message holds the output
\* text as it came.
C13_ParseFailureCarriesOutput ==
    (/\ Completed
     /\ HasClient
     /\ stub.raises = "none"
     /\ stub.run = "canned"
     /\ call.tool = "list_objects" => docs # <<>>
     /\ Unparsable(stub.text)) =>
        /\ ReturnedError
        /\ Contains(call.ret.error_message, stub.text)

\* Names of the objects the active document holds now, in order
DocumentNames ==
    [i \in 1..(bulk + Len(objects)) |-> DocObjects(objects, bulk)[i].Name]

\* C19: no tool function caches or buffers remote document state: an
\* envelope with status "success" is produced only after a remote call of
\* that same invocation, and what list_objects reports is the document as
\* it is at the call, whatever earlier invocations saw.
C19_NothingCached ==
    /\ (/\ Completed
        /\ call.pytype = "dict"
        /\ "status" \in DOMAIN call.ret
        /\ call.ret.status = "success") => call.log # <<>>
    /\ (/\ call.tool = "list_objects"
        /\ HasClient
        /\ stub.raises = "none"
        /\ stub.run = "printed"
        /\ docs # <<>>) =>
            /\ call.pytype = "dict"
            /\ call.ret = [status |-> "success", objects |-> DocumentNames]

\* list_objects on a document that an earlier create_box of the same
\* environment has added to
C19_Witness ==
    /\ call.tool = "list_objects"
    /\ HasClient
    /\ Len(call.log) = 2
    /\ stub.run = "printed"
    /\ call.ret = [status |-> "success", objects |-> <<"Box", "Box001">>]

\* The client calls of a log, by name
Ops(log) == [i \in 1..Len(log) |-> log[i].op]

CreateTools == {"create_box", "create_cylinder", "create_sphere"}

\* C20: create_box, create_cylinder and create_sphere with a client issue
\* their calls in the order list_documents, then
\* create_document("CADAgentDocument") if and only if list_documents gave
\* an empty result, then exactly one run_python_code that adds the
\* primitive; create_document is not issued when a document exists, and
\* not after run_python_code.
C20_CreateCallOrder ==
    [][(call'.tool \in CreateTools /\ HasClient /\ stub.raises = "none") =>
        /\ Ops(call'.log) =
            IF docs = <<>>
            THEN <<"list_documents", "create_document", "run_python_code">>
            ELSE <<"list_documents", "run_python_code">>
        /\ docs = <<>> => call'.log[2].name = "CADAgentDocument"
        /\ call'.log[Len(call'.log)].code.fragment = "addObject"]_vars

C20_Witness ==
    /\ call.tool = "create_sphere"
    /\ HasClient
    /\ Ops(call.log) = <<"list_documents", "create_document", "run_python_code">>
    /\ docs = <<"CADAgentDocument">>
    /\ Len(objects) = 1
    /\ objects[1].Name = "Sphere"

----------------------------------------------------------------------------
(* What the start-up function completed last shows *)

NonePair == PyTuple(PyNone, PyNone)

\* C14: get_mcp_client returns a constructed client or None and no exception
\* leaves it: it returns None when the freecad-mcp source directory is
\* missing, when the import fails and when Client() raises, a client
\* otherwise; with the directory missing neither the import nor the
\* construction is attempted.
C14_ClientOrNone ==
    boot.op = "get_mcp_client" =>
        /\ ~boot.raised
        /\ boot.client <=> HasClient
        /\ (~mcpDirExists \/ stub.acquire \in {"ImportError", "Exception"}) => ~boot.client
        /\ ~mcpDirExists => (~boot.imported /\ ~boot.constructed)

\* Client() was called and raised, and None came back
C14_Witness ==
    /\ boot.op = "get_mcp_client"
    /\ mcpDirExists
    /\ stub.acquire = "Exception"
    /\ boot.imported /\ boot.constructed
    /\ ~boot.client /\ ~boot.raised

\* C15: get_mcp_tools_async raises nothing and returns the pair from_server
\* produced or (None, None), never a pair with one component None: it returns
\* (None, None) when the source directory is missing or from_server raises,
\* and with the directory missing no server process is spawned.
C15_ToolsPairOrNonePair ==
    boot.op = "get_mcp_tools_async" =>
        /\ ~boot.escaped
        /\ (boot.ret.first = PyNone) <=> (boot.ret.second = PyNone)
        /\ (~mcpDirExists \/ server.connect = "raises") => boot.ret = NonePair
        /\ (mcpDirExists /\ server.connect = "tools") =>
                boot.ret = PyTuple(PyList(server.tools), ExitStack)
        /\ ~mcpDirExists => boot.spawned = 0

\* the server was spawned, from_server raised, and (None, None) came back
C15_Witness ==
    /\ boot.op = "get_mcp_tools_async"
    /\ mcpDirExists
    /\ server.connect = "raises"
    /\ boot.spawned = 1
    /\ boot.ret = NonePair

\* The callers of get_mcp_tools_async C16 names
ScopeHolders == {"setup_environment_async", "test_adk_setup", "check_mcp_connection_async"}

\* C16: in setup_environment_async, test_adk_setup and
\* check_mcp_connection_async, a scope (exit_stack) the provider returned is
\* released by exactly one aclose() before the caller returns, whatever the
\* tool list and whatever raises after the acquisition.
C16_ScopeReleasedOnce ==
    (boot.op \in ScopeHolders /\ boot.opened = 1) => boot.acloses = 1

\* C17: check_mcp_connection returns a boolean and raises nothing: False when
\* get_mcp_client gives None or list_documents raises, True otherwise; it
\* makes at most one call on the client.
C17_ProbeIsBoolean ==
    boot.op = "check_mcp_connection" =>
        /\ ~boot.escaped
        /\ boot.ret = PyBool(HasClient /\ stub.raises # "list_documents")
        /\ Len(boot.log) <= 1
        /\ \A i \in 1..Len(boot.log) : boot.log[i].op = "list_documents"

\* list_documents raised, and False came back after that one call
C17_Witness ==
    /\ boot.op = "check_mcp_connection"
    /\ HasClient
    /\ stub.raises = "list_documents"
    /\ boot.ret = PyBool(FALSE)
    /\ Len(boot.log) = 1

\* The credentials C18 calls absent, of the environment as start-up reads it
\* (after load_dotenv())
CredentialsUnset(env) ==
    IF UseVertexAI(env)
    THEN IsUnset(env, "GOOGLE_CLOUD_PROJECT") \/ IsUnset(env, "GOOGLE_CLOUD_LOCATION")
    ELSE IsUnset(env, "GOOGLE_API_KEY")

\* C18: with GOOGLE_GENAI_USE_VERTEXAI "True" and GOOGLE_CLOUD_PROJECT or
\* GOOGLE_CLOUD_LOCATION unset, or without Vertex AI and GOOGLE_API_KEY
\* unset, setup_environment_async returns False and get_mcp_tools_async is
\* not called; start_app_async returns the root agent when
\* setup_environment_async returned True and False otherwise.
C18_StartupNeedsCredentials ==
    /\ (boot.op = "setup_environment_async" /\ CredentialsUnset(environ)) =>
            /\ ~boot.escaped
            /\ boot.ret = PyBool(FALSE)
            /\ boot.attempts = 0 /\ boot.spawned = 0
    /\ boot.op = "start_app_async" =>
            /\ ~boot.escaped
            /\ boot.ret = IF boot.setup = PyBool(TRUE) THEN RootAgent ELSE PyBool(FALSE)
            /\ CredentialsUnset(environ) => (boot.ret = PyBool(FALSE) /\ boot.attempts = 0)

\* Vertex AI is selected with a project and without a location, and start-up
\* stopped before the connection
C18_Witness ==
    /\ boot.op = "setup_environment_async"
    /\ UseVertexAI(environ)
    /\ ~IsUnset(environ, "GOOGLE_CLOUD_PROJECT")
    /\ IsUnset(environ, "GOOGLE_CLOUD_LOCATION")
    /\ boot.ret = PyBool(FALSE)
    /\ boot.attempts = 0

\* C21: an error ends the invocation: with a client, no remote operation is
\* issued twice in one invocation and the call that raises is the last one
\* issued; when create_box, create_cylinder or create_sphere has created the
\* document and run_python_code then raises, the function returns an error
\* envelope after those three calls, and the document created stays.
C21_ErrorsAreTerminal ==
    (Completed /\ HasClient) =>
        /\ \A i, j \in 1..Len(call.log) : i # j => call.log[i].op # call.log[j].op
        /\ \A i \in 1..(Len(call.log) - 1) : call.log[i].op # stub.raises
        /\ (call.tool \in CreateTools /\ stub.raises = "run_python_code"
                /\ Issued("create_document")) =>
                /\ ReturnedError
                /\ Ops(call.log) = <<"list_documents", "create_document", "run_python_code">>
                /\ docs = <<"CADAgentDocument">>
                /\ objects = <<>>

\* create_box created the document, run_python_code raised, and the
\* document is still there, empty
C21_Witness ==
    /\ call.tool = "create_box"
    /\ HasClient
    /\ stub.raises = "run_python_code"
    /\ Ops(call.log) = <<"list_documents", "create_document", "run_python_code">>
    /\ call.ret = Err("Error creating box: " \o TransportError)
    /\ docs = <<"CADAgentDocument">>
    /\ objects = <<>>

MeasureTools == {"calculate_volume", "calculate_surface_area", "calculate_center_of_mass"}

\* C22: calculate_volume, calculate_surface_area and calculate_center_of_mass
\* with a client issue, whatever the object name, exactly one run_python_code
\* call, whose fragment looks the object up by the name given.
C22_MeasureSendsOneFragment ==
    (call.tool \in MeasureTools /\ HasClient) =>
        /\ Ops(call.log) = <<"run_python_code">>
        /\ call.log[1].code.obj_name = call.args[1]

\* The result of the one run_python_code call of the invocation that leads
\* from this state to the next: the fragment sent, run on the document as it
\* was
CapturedResult == run_python_code(World(docs, objects, bulk), call'.log[1].code).value

\* C23: boolean_operation (with an operation of valid_operations) and
\* set_object_placement, with a client whose run_python_code returns a dict:
\* the status returned is "success" if and only if the output of the one
\* fragment sent holds the word success; without the word the function
\* returns an error envelope with the output in its message ("Unknown error"
\* where the result has no output); a success of boolean_operation names
\* result_name as object_name.
C23_SuccessWordDecides ==
    [][(/\ call'.tool \in {"boolean_operation", "set_object_placement"}
        /\ HasClient
        /\ stub.raises = "none"
        /\ stub.run # "None"
        /\ call'.tool = "boolean_operation" => IsValidOperation(call'.args[3])) =>
            \A result \in {CapturedResult} :
                /\ Ops(call'.log) = <<"run_python_code">>
                /\ call'.pytype = "dict"
                /\ call'.ret.status = "success"
                        <=> Contains(Get(result, "output", ""), "success")
                /\ call'.ret.status # "success" =>
                        /\ DOMAIN call'.ret = {"status", "error_message"}
                        /\ call'.ret.status = "error"
                        /\ Contains(call'.ret.error_message,
                                    Get(result, "output", "Unknown error"))
                /\ (call'.ret.status = "success" /\ call'.tool = "boolean_operation") =>
                        call'.ret.object_name = call'.args[4]]_vars

\* a cut of Box by Box ran, its output held the word, and the envelope names
\* the result
C23_Witness ==
    /\ call.tool = "boolean_operation"
    /\ HasClient
    /\ stub.run = "printed"
    /\ call.args = <<"Box", "Box", "cut", "BooleanResult">>
    /\ call.pytype = "dict"
    /\ call.ret.status = "success"
    /\ call.ret.object_name = "BooleanResult"
    /\ \E i \in 1..Len(objects) : objects[i].Name = "BooleanResult"

\* What run_python_code gives list_objects in this state (the fragment
\* changes nothing of the document)
ListResult == run_python_code(World(docs, objects, bulk), [fragment |-> "list"]).value

\* The result is a dict with a true "success" entry
SuccessFlagged(result) ==
    ~result.isNone /\ "success" \in DOMAIN result.d /\ result.d["success"]

\* eval of the output of the result ("[]" where it has none), stripped
ListedOutput(result) == PyEval(Strip(Get(result, "output", "[]")))

\* C24: list_objects with a client and a document issues list_documents and
\* then one run_python_code; it returns {status: "success", objects: L},
\* without a message, L being the list of names the output holds, if and
\* only if the result has a true "success" entry and the output evaluates to
\* a list; where the "success" entry is absent or false it returns the error
\* "Failed to run Python code in FreeCAD".
C24_ListNeedsFlagAndList ==
    (call.tool = "list_objects" /\ HasClient /\ stub.raises = "none" /\ docs # <<>>) =>
        \A result \in {ListResult} :
            /\ Ops(call.log) = <<"list_documents", "run_python_code">>
            /\ call.pytype = "dict"
            /\ call.ret.status = "success"
                    <=> /\ SuccessFlagged(result)
                        /\ ListedOutput(result).ok
                        /\ ListedOutput(result).ty = "list"
            /\ call.ret.status = "success" =>
                    call.ret = [status |-> "success", objects |-> ListedOutput(result).val]
            /\ (~result.isNone /\ ~SuccessFlagged(result)) =>
                    call.ret = Err("Failed to run Python code in FreeCAD")

\* C25: save_document with a client whose list_documents returns no
\* document returns the error "No document found to save." whatever the
\* filename and sends no fragment; the fragment that saves is sent only
\* after list_documents has returned a document.
C25_NoDocumentNothingSaved ==
    (call.tool = "save_document" /\ HasClient /\ stub.raises # "list_documents") =>
        /\ docs = <<>> =>
                /\ call.ret = Err("No document found to save.")
                /\ Ops(call.log) = <<"list_documents">>
        /\ Issued("run_python_code") =>
                /\ docs # <<>>
                /\ Ops(call.log) = <<"list_documents", "run_python_code">>
                /\ call.log[2].code.fragment = "saveAs"

\* save_document("plan.FCStd") found no document and stopped after
\* list_documents
C25_Witness ==
    /\ call.tool = "save_document"
    /\ HasClient
    /\ stub.raises = "none"
    /\ docs = <<>>
    /\ call.args = <<"plan.FCStd">>
    /\ call.ret = Err("No document found to save.")
    /\ Ops(call.log) = <<"list_documents">>

\* C26: boolean_operation asks for the client before it looks at the
\* operation: without a client and with an operation outside {fusion, cut,
\* common} it returns the connection error, not the invalid-operation error;
\* the invalid-operation error is returned only where a client was obtained.
C26_ClientBeforeValidation ==
    call.tool = "boolean_operation" =>
        /\ call.pytype = "dict"
        /\ (~HasClient /\ ~IsValidOperation(call.args[3])) =>
                /\ call.ret = ConnectError
                /\ call.log = <<>>
        /\ (call.ret.status = "error"
                /\ Contains(call.ret.error_message, "Invalid operation type")) => HasClient

\* no client, operation "xor": the connection error came back
C26_Witness ==
    /\ call.tool = "boolean_operation"
    /\ ~HasClient
    /\ call.args[3] = "xor"
    /\ call.ret = ConnectError
    /\ call.acquired = 1

\* Has the sequence an entry equal to text
HasEntry(entries, text) == \E k \in 1..Len(entries) : entries[k] = text

\* The names, in document order, of the objects with a shape whose volume is
\* below 0.0001
SmallVolumeNames ==
    LET all == DocObjects(objects, bulk)
        small == SelectSeq(all, LAMBDA o : o.hasShape /\ o.Volume < ZeroVolumeThreshold)
    IN  [i \in 1..Len(small) |-> small[i].Name]

\* C27: in the analysis analyze_model_structure returns for a document:
\* potential_issues holds the large-object-count entry if and only if the
\* document has more than 100 objects (100 are not flagged); the
\* recommendation to simplify is there if and only if that entry is; the
\* zero-volume issue and its recommendation are there if and only if some
\* object has a shape volume below 0.0001, and the issue names exactly
\* those objects.
C27_AnalysisThresholds ==
    (/\ call.tool = "analyze_model_structure"
     /\ HasClient
     /\ stub.raises = "none"
     /\ stub.run = "printed"
     /\ docs # <<>>) =>
        \A small \in {SmallVolumeNames} :
            /\ call.pytype = "dict"
            /\ HasEntry(call.ret.potential_issues, LargeCountIssue)
                    <=> bulk + Len(objects) > 100
            /\ HasEntry(call.ret.recommendations, SimplifyRecommendation)
                    <=> HasEntry(call.ret.potential_issues, LargeCountIssue)
            /\ SomeEntryHolds(call.ret.potential_issues, "zero or very small volume")
                    <=> small # <<>>
            /\ HasEntry(call.ret.recommendations, ZeroVolumeRecommendation)
                    <=> small # <<>>
            /\ small # <<>> =>
                    HasEntry(call.ret.potential_issues,
                             "Objects with zero or very small volume: " \o Join(", ", small))
            /\ Len(call.ret.potential_issues) <= 2
            /\ Len(call.ret.recommendations) <= 2

\* a document of exactly 100 objects, none of them small: nothing flagged
C27_Witness ==
    /\ call.tool = "analyze_model_structure"
    /\ HasClient
    /\ stub.run = "printed"
    /\ stub.raises = "none"
    /\ bulk + Len(objects) = 100
    /\ call.pytype = "dict"
    /\ call.ret.status = "success"
    /\ call.ret.object_count = 100
    /\ call.ret.potential_issues = <<>>
    /\ call.ret.recommendations = <<>>

\* C28: in test_adk_with_freecad, a subprocess run_freecad_mcp_server has
\* started is terminated and awaited exactly once before the function
\* returns, whether the toolset connects, lists nothing or raises; where
\* the checks or the spawn fail, no subprocess was started.
C28_ServerStoppedOnce ==
    boot.op = "test_adk_with_freecad" =>
        /\ boot.started = 1 => (boot.terminates = 1 /\ boot.waits = 1)
        /\ boot.started = 0 => (boot.terminates = 0 /\ boot.waits = 0)
        /\ (boot.process = "spawn_raises" \/ CredentialsMissing(environ)) => boot.started = 0


\* How many times dir stands in path
Occurrences(path, dir) == Cardinality({i \in 1..Len(path) : path[i] = dir})

\* The functions of the provider that set up the module search path
PathSetters == {"setup_mcp_environment", "get_mcp_client", "get_mcp_tools_async"}

\* C29: setup_mcp_environment, called directly or through get_mcp_client or
\* get_mcp_tools_async any number of times in one process, adds the
\* freecad-mcp source directory to sys.path at most once: a call that finds
\* the directory and not yet on the path puts it at the front and returns
\* True, a call that finds it on the path leaves the path as it is, and a
\* call that does not find the directory leaves the path as it is and
\* returns False.
C29_PathSetUpOnce ==
    [][boot'.op # "none" =>
        /\ Occurrences(sysPath', McpSrcDir) <= Occurrences(sysPath, McpSrcDir) + 1
        /\ InPath(sysPath, McpSrcDir) =>
                Occurrences(sysPath', McpSrcDir) = Occurrences(sysPath, McpSrcDir)
        /\ boot'.op \in PathSetters =>
            /\ ~mcpDirExists => sysPath' = sysPath
            /\ InPath(sysPath, McpSrcDir) => sysPath' = sysPath
            /\ (mcpDirExists /\ ~InPath(sysPath, McpSrcDir)) =>
                    sysPath' = <<McpSrcDir>> \o sysPath
            /\ boot'.op = "setup_mcp_environment" => (boot'.ok <=> mcpDirExists)
    ]_vars

\* a call found the directory, which the path held from the start behind
\* the installed packages, and returned True with the path as it was
C29_Witness ==
    /\ boot.op = "setup_mcp_environment"
    /\ boot.ok
    /\ sysPath = <<"site-packages", McpSrcDir>>

====
